---- MODULE Spec2Model ----
(***************************************************************************)
(* A model of the SEO suite backend: the keyword-suggestion fallback chain *)
(* (services/keyword_suggestion.py), the orchestrated pipelines            *)
(* (services/orchestrator.py) with the volume, SERP and LLM services they  *)
(* call, and the routers' mapping of failures to HTTP statuses.            *)
(*                                                                         *)
(* Conventions.  A Python Optional is a set with at most one element ({}   *)
(* is None).  A keyword is the sequence of its words.  A call's result is  *)
(* a record whose exc field is "none" for a normal return and the name of  *)
(* the exception class otherwise.                                          *)
(***************************************************************************)
EXTENDS Integers, Sequences, FiniteSets, TLC

VARIABLES
    cfg,        \* config.settings: which credentials the environment holds
    session,    \* KeywordSuggestionService.session: "none", "open", "closed"
    cache,      \* KeywordSuggestionService.cache: cache_key -> suggestions
    ncalls,     \* calls made on the service instance so far
    ret,        \* the last method call on the service: its inputs and result
    pl          \* the request being handled by a router and its pipeline

vars == <<cfg, session, cache, ncalls, ret, pl>>

(***************************************************************************)
(* Bounds of the model.                                                    *)
(***************************************************************************)
MaxLimit == 3       \* the small request limits are 1..MaxLimit
BigLimit == 33      \* one request limit above twice the number of modifiers
MaxProv  == 4       \* most records one provider payload carries
MaxAuto  == 11      \* size of the pool the autocomplete endpoints draw from
MaxCalls == 2       \* get_suggestions calls on one service instance

Limits == (1..MaxLimit) \cup {BigLimit}

Seeds == {<<"seo">>, <<"seo", "tools">>}
Languages == {<<"en">>}
Countries == {<<"us">>}

(***************************************************************************)
(* Python helpers.                                                         *)
(***************************************************************************)
Min(a, b) == IF a < b THEN a ELSE b
Max(a, b) == IF a > b THEN a ELSE b

\* s[:n] for n >= 0
Take(s, n) == SubSeq(s, 1, Min(n, Len(s)))

\* the elements of a sequence
Range(s) == {s[i] : i \in DOMAIN s}

(***************************************************************************)
(* config.Settings.  Reading an attribute the class does not define raises *)
(* AttributeError (pydantic BaseSettings, extra="ignore").                 *)
(***************************************************************************)
SettingsAttrs ==
    {"model_config", "gemini_api_key", "gemini_model",
     "dataforseo_login", "dataforseo_password",
     "google_ads_developer_token", "google_ads_client_id",
     "google_ads_client_secret", "google_ads_refresh_token",
     "google_ads_customer_id", "serpapi_key", "valueserpapi_key",
     "redis_url", "api_version", "cache_ttl_seconds",
     "has_google_ads_credentials", "has_serpapi", "has_dataforseo"}

HasAttr(name) == name \in SettingsAttrs

\* The environment: which credentials are set.  serper is what a Serper key
\* in the environment would be; Settings ignores it (extra="ignore").
Configs ==
    [dataforseo : BOOLEAN, serper : BOOLEAN, google_ads : BOOLEAN,
     serpapi_key : BOOLEAN, valueserpapi_key : BOOLEAN]

has_dataforseo(c) == c.dataforseo
has_serpapi(c) == c.serpapi_key \/ c.valueserpapi_key
has_google_ads_credentials(c) == c.google_ads

(***************************************************************************)
(* exceptions.py: the class hierarchy.                                     *)
(***************************************************************************)
SEOServiceErrors ==
    {"SEOServiceError", "APIKeyMissingError", "APIRateLimitError",
     "APIRequestError", "DataValidationError", "ServiceUnavailableError"}

IsInstance(exc, cls) ==
    CASE cls = "Exception" -> exc # "none"
      [] cls = "SEOServiceError" -> exc \in SEOServiceErrors
      [] OTHER -> exc = cls

(***************************************************************************)
(* schemas/keyword_schemas.py: KeywordSuggestion.                          *)
(***************************************************************************)
KeywordSuggestion(keyword, source) ==
    [keyword |-> keyword, source |-> source, search_volume |-> {},
     competition |-> "unknown", competition_score |-> {}, cpc |-> {}]

(***************************************************************************)
(* KeywordSuggestionService.get_suggestions: the cache key is the f-string *)
(* "{seed_keyword}_{language}_{country}_{limit}".                          *)
(***************************************************************************)
CacheKey(seed_keyword, language, country, limit) ==
    seed_keyword \o <<"_">> \o language \o <<"_">> \o country
                 \o <<"_", ToString(limit)>>

(***************************************************************************)
(* What the outside world answers.  An HTTP exchange ends with a status    *)
(* other than 200, with a network error (aiohttp.ClientError), with a body *)
(* that does not decode (json.JSONDecodeError), or with a decoded payload. *)
(***************************************************************************)
DfsCounts == {0, 1, MaxProv}

DfsResponses ==
    [kind : {"http"}, status : {401, 429, 500}, task_status : {20000}, n : {0}]
    \cup [kind : {"network_error", "bad_body"}, status : {200},
          task_status : {20000}, n : {0}]
    \cup [kind : {"ok"}, status : {200}, task_status : {20000, 40501},
          n : DfsCounts]

SerperResponses ==
    [kind : {"http"}, status : {403, 500}, related : {0}, paa : {0}]
    \cup [kind : {"network_error", "bad_body"}, status : {200},
          related : {0}, paa : {0}]
    \cup [kind : {"ok"}, status : {200}, related : {0, 1, MaxProv},
          paa : {0, 2}]

\* The texts an autocomplete endpoint may return: the window of `len` texts
\* of the pool that starts after `off`.
AutoPool == [i \in 1..MaxAuto |-> <<"seo", "auto", ToString(i)>>]
AutoWindow(off, len) == SubSeq(AutoPool, off + 1, Min(off + len, MaxAuto))

AutoResponses ==
    [kind : {"http", "network_error", "bad_body"}, texts : {<<>>}]
    \cup {[kind |-> "ok", texts |-> AutoWindow(off, len)] :
            off \in {0, 1, MaxAuto - 1}, len \in {0, 1, 2, MaxAuto - 2, MaxAuto}}

(***************************************************************************)
(* A method's result.  attempts lists the tiers the call entered, in       *)
(* order, each with the exception its call ended with ("none" if it        *)
(* returned), the number of records it yielded and the records gathered    *)
(* once it was over.                                                       *)
(***************************************************************************)
Attempt(tier, exc, n, after) ==
    [tier |-> tier, exc |-> exc, n |-> n, after |-> after]

Returned(value, attempts) ==
    [exc |-> "none", value |-> value, attempts |-> attempts]
Raised(exc, attempts) ==
    [exc |-> exc, value |-> <<>>, attempts |-> attempts]

(***************************************************************************)
(* KeywordSuggestionService._parse_dataforseo_response                     *)
(***************************************************************************)
\* the payload's items carry what kw_data.get finds: a volume, a volume of
\* 0 or none, and likewise a competition score and a price
_parse_dataforseo_response(resp) ==
    IF resp.task_status = 20000
    THEN [i \in 1..resp.n |->
            [KeywordSuggestion(<<"seo", "dfs", ToString(i)>>, "dataforseo")
                EXCEPT !.search_volume = CASE i % 3 = 1 -> {100 * i}
                                           [] i % 3 = 2 -> {}
                                           [] OTHER -> {0},
                       !.competition_score = IF i % 3 = 1 THEN {30} ELSE {},
                       !.cpc = IF i % 3 = 0 THEN {} ELSE {120 + i}]]
    ELSE <<>>

(***************************************************************************)
(* KeywordSuggestionService._get_dataforseo_suggestions                    *)
(***************************************************************************)
_get_dataforseo_suggestions(sess, resp) ==
    IF sess = "none" THEN Raised("RuntimeError", <<>>)
    ELSE IF sess = "closed" THEN Raised("RuntimeError", <<>>)
    ELSE IF resp.kind = "network_error" THEN Raised("APIRequestError", <<>>)
    ELSE IF resp.status = 401 THEN Raised("APIKeyMissingError", <<>>)
    ELSE IF resp.status = 429 THEN Raised("APIRateLimitError", <<>>)
    ELSE IF resp.status # 200 THEN Raised("APIRequestError", <<>>)
    ELSE IF resp.kind = "bad_body" THEN Raised("JSONDecodeError", <<>>)
    ELSE Returned(_parse_dataforseo_response(resp), <<>>)

(***************************************************************************)
(* KeywordSuggestionService._parse_serper_response                         *)
(***************************************************************************)
_parse_serper_response(resp, limit) ==
    LET related == [i \in 1..resp.related |->
                      KeywordSuggestion(<<"seo", "rel", ToString(i)>>,
                                        "serper_related")]
        room == Max(0, limit - Len(related))
        paa == [i \in 1..Min(resp.paa, room) |->
                  KeywordSuggestion(<<"what", "is", "seo", ToString(i)>>,
                                    "serper_paa")]
    IN  Take(related \o paa, limit)

(***************************************************************************)
(* KeywordSuggestionService._get_serper_suggestions                        *)
(***************************************************************************)
_get_serper_suggestions(sess, resp, limit) ==
    IF sess = "none" THEN Raised("RuntimeError", <<>>)
    ELSE IF sess = "closed" THEN Raised("RuntimeError", <<>>)
    ELSE IF resp.kind = "network_error" THEN Raised("APIRequestError", <<>>)
    ELSE IF resp.status = 403 THEN Raised("APIKeyMissingError", <<>>)
    ELSE IF resp.status # 200 THEN Raised("APIRequestError", <<>>)
    ELSE IF resp.kind = "bad_body" THEN Raised("JSONDecodeError", <<>>)
    ELSE Returned(_parse_serper_response(resp, limit), <<>>)

(***************************************************************************)
(* KeywordSuggestionService._generate_keyword_variations                   *)
(***************************************************************************)
modifiers ==
    <<"best", "top", "guide", "tutorial", "free", "online",
      "near me", "cheap", "review", "vs", "tips", "strategy",
      "tools", "software", "services", "comparison">>

RECURSIVE GenLoop(_, _, _, _)
GenLoop(mods, seed_keyword, limit, variations) ==
    IF mods = <<>> THEN variations
    ELSE LET withPrefix ==
                Append(variations,
                       KeywordSuggestion(<<Head(mods)>> \o seed_keyword,
                                         "generated_prefix"))
             withSuffix ==
                IF Len(withPrefix) < limit
                THEN Append(withPrefix,
                            KeywordSuggestion(seed_keyword \o <<Head(mods)>>,
                                              "generated"))
                ELSE withPrefix
         IN  GenLoop(Tail(mods), seed_keyword, limit, withSuffix)

_generate_keyword_variations(seed_keyword, limit) ==
    Take(GenLoop(Take(modifiers, limit), seed_keyword, limit, <<>>), limit)

(***************************************************************************)
(* KeywordSuggestionService._get_fallback_suggestions                      *)
(***************************************************************************)
\* suggestions_map after the loop over one endpoint's texts: a text already
\* a key keeps the record it has
RECURSIVE AddTexts(_, _, _)
AddTexts(suggestions_map, texts, source) ==
    IF texts = <<>> THEN suggestions_map
    ELSE AddTexts(
            IF \E i \in DOMAIN suggestions_map :
                    suggestions_map[i].keyword = Head(texts)
            THEN suggestions_map
            ELSE Append(suggestions_map,
                        KeywordSuggestion(Head(texts), source)),
            Tail(texts), source)

\* the exception one autocomplete call ends with: it is caught and logged.
\* Without a session the Google block raises RuntimeError itself and the
\* DuckDuckGo block fails on self.session.get
AutoExc(sess, resp, noSession) ==
    IF sess = "none" THEN noSession
    ELSE IF sess = "closed" THEN "RuntimeError"
    ELSE IF resp.kind = "network_error" THEN "ClientError"
    ELSE IF resp.kind = "bad_body" THEN "JSONDecodeError"
    ELSE "none"

\* the texts one autocomplete call adds
AutoTexts(sess, resp) ==
    IF sess = "open" /\ resp.kind = "ok" THEN resp.texts ELSE <<>>

\* a slip: variations only when the autocomplete endpoints gave nothing
NeedsVariationsOnlyWhenEmpty(found) == Len(found) = 0

\* "If still short on results": len(suggestions) < 10
NeedsVariations(found) == Len(found) < 10

\* a slip: the variations replace what the endpoints gave
TopUpReplacing(found, variations) == variations

\* suggestions.extend(variations)
TopUp(found, variations) == found \o variations

_get_fallback_suggestions(sess, seed_keyword, limit, google, ddg) ==
    LET afterGoogle ==
            AddTexts(<<>>, AutoTexts(sess, google), "google_autocomplete")
        afterDdg ==
            AddTexts(afterGoogle, AutoTexts(sess, ddg),
                     "duckduckgo_autocomplete")
        variations ==
            _generate_keyword_variations(seed_keyword,
                                         Max(0, limit - Len(afterDdg)))
        suggestions ==
            IF NeedsVariations(afterDdg) THEN TopUp(afterDdg, variations)
            ELSE afterDdg
        attempts ==
            <<Attempt("google_autocomplete",
                      AutoExc(sess, google, "RuntimeError"),
                      Len(afterGoogle), afterGoogle),
              Attempt("duckduckgo_autocomplete",
                      AutoExc(sess, ddg, "AttributeError"),
                      Len(afterDdg) - Len(afterGoogle), afterDdg)>>
            \o (IF NeedsVariations(afterDdg)
                THEN <<Attempt("generated", "none", Len(variations),
                               suggestions)>>
                ELSE <<>>)
    IN  Returned(Take(suggestions, limit), attempts)

(***************************************************************************)
(* KeywordSuggestionService.get_suggestions.  env holds the answers of the *)
(* four services (dfs, serper, google, ddg).  The result also carries the  *)
(* cache after the call and whether the cache answered.                    *)
(***************************************************************************)
GsResult(r, newCache, cached) ==
    [exc |-> r.exc, value |-> r.value, attempts |-> r.attempts,
     cache |-> newCache, cached |-> cached]

\* self.cache[cache_key] = suggestions
CachePut(c, key, suggestions) ==
    [k \in DOMAIN c \cup {key} |-> IF k = key THEN suggestions ELSE c[k]]

\* a slip: the cached list is returned whole
CachedSuggestionsUnsliced(theCache, cache_key, limit) == theCache[cache_key]

\* the cache-hit return: self.cache[cache_key][:limit]
CachedSuggestions(theCache, cache_key, limit) == Take(theCache[cache_key], limit)

get_suggestions(c, theCache, sess, seed_keyword, limit, language, country, env) ==
    LET cache_key == CacheKey(seed_keyword, language, country, limit)
        \* Try DataForSEO if configured; any exception is logged and dropped
        dfs == _get_dataforseo_suggestions(sess, env.dfs)
        s1 == IF has_dataforseo(c) /\ dfs.exc = "none" THEN dfs.value ELSE <<>>
        a1 == IF has_dataforseo(c)
              THEN <<Attempt("dataforseo", dfs.exc, Len(s1), s1)>> ELSE <<>>
        \* Try Serper.dev if no suggestions yet and it is configured
        trySerper == s1 = <<>> /\ c.serper
        serper == _get_serper_suggestions(sess, env.serper, limit)
        s2 == IF trySerper
              THEN (IF serper.exc = "none" THEN serper.value ELSE s1)
              ELSE s1
        a2 == IF trySerper
              THEN a1 \o <<Attempt("serper", serper.exc, Len(s2), s2)>> ELSE a1
        \* Fallback to free alternatives if needed
        fb == _get_fallback_suggestions(sess, seed_keyword, limit,
                                        env.google, env.ddg)
        s3 == IF s2 = <<>> THEN fb.value ELSE s2
        a3 == IF s2 = <<>> THEN a2 \o fb.attempts ELSE a2
    IN  IF cache_key \in DOMAIN theCache
        THEN GsResult(Returned(CachedSuggestions(theCache, cache_key, limit),
                               <<>>),
                      theCache, TRUE)
        ELSE IF s1 = <<>> /\ ~HasAttr("has_serper")
        THEN \* settings.has_serper() is evaluated: no such attribute
             GsResult(Raised("AttributeError", a1), theCache, FALSE)
        ELSE GsResult(Returned(Take(s3, limit), a3),
                      CachePut(theCache, cache_key, s3), FALSE)

\* the answers one get_suggestions call may meet
Envs ==
    [dfs : DfsResponses,
     serper : {r \in SerperResponses :
                    /\ r.kind \in {"network_error", "ok"}
                    /\ r.kind = "ok" => r.related = 1 /\ r.paa = 2},
     google : {r \in AutoResponses :
                    /\ r.kind \in {"network_error", "ok"}
                    /\ r.kind = "ok" => r.texts = AutoWindow(0, 2)},
     ddg : {r \in AutoResponses :
                    /\ r.kind \in {"network_error", "ok"}
                    /\ r.kind = "ok" => r.texts = AutoWindow(1, 2)}]

\* the answers a single method call is tried on
MethodEnvs ==
    [dfs : DfsResponses,
     serper : {r \in SerperResponses :
                    /\ r.kind \in {"network_error", "ok"}
                    /\ r.kind = "ok" => r.related = 1 /\ r.paa = 2},
     google : AutoResponses, ddg : AutoResponses]

(***************************************************************************)
(* The state of one KeywordSuggestionService and of the last call on it.   *)
(***************************************************************************)
NoCall ==
    [op |-> "none", seed_keyword |-> <<>>, limit |-> 0, sess |-> "none",
     exc |-> "none", value |-> <<>>, attempts |-> <<>>, cached |-> FALSE]

Call(op, seed_keyword, limit, sess, r, cached) ==
    [op |-> op, seed_keyword |-> seed_keyword, limit |-> limit, sess |-> sess,
     exc |-> r.exc, value |-> r.value, attempts |-> r.attempts,
     cached |-> cached]

NoPipeline == [pc |-> "off"]

\* KeywordSuggestionService.__init__, with the process's settings loaded
InitService ==
    /\ cfg \in Configs
    /\ session = "none"
    /\ cache = <<>>
    /\ ncalls = 0
    /\ ret = NoCall

Init ==
    /\ InitService
    /\ cfg.google_ads = FALSE /\ cfg.serpapi_key = FALSE
    /\ cfg.valueserpapi_key = FALSE
    /\ pl = NoPipeline

\* KeywordSuggestionService.__aenter__
AEnter ==
    /\ session = "none"
    /\ session' = "open"
    /\ UNCHANGED <<cfg, cache, ncalls, ret, pl>>

\* KeywordSuggestionService.__aexit__
AExit ==
    /\ session = "open"
    /\ session' = "closed"
    /\ UNCHANGED <<cfg, cache, ncalls, ret, pl>>

\* one call of get_suggestions on the instance
GetSuggestions ==
    /\ ncalls < MaxCalls
    /\ \E seed_keyword \in Seeds, limit \in Limits, language \in Languages,
          country \in Countries, env \in Envs :
          LET r == get_suggestions(cfg, cache, session, seed_keyword, limit,
                                   language, country, env)
          IN  /\ cache' = r.cache
              /\ ret' = Call("get_suggestions", seed_keyword, limit, session,
                             r, r.cached)
    /\ ncalls' = ncalls + 1
    /\ UNCHANGED <<cfg, session, pl>>

Next == AEnter \/ AExit \/ GetSuggestions

Spec == Init /\ [][Next]_vars

(***************************************************************************)
(* Single method calls on a service instance whose session is in any of    *)
(* its states: get_suggestions on an empty cache, and the tiers' methods   *)
(* called on their own.                                                    *)
(***************************************************************************)
InitMethods ==
    /\ cfg \in Configs
    /\ cfg.google_ads = FALSE /\ cfg.serpapi_key = FALSE
    /\ cfg.valueserpapi_key = FALSE
    /\ session \in {"none", "open", "closed"}
    /\ cache = <<>>
    /\ ncalls = 0
    /\ ret = NoCall
    /\ pl = NoPipeline

MGetSuggestions ==
    /\ ncalls = 0
    /\ \E seed_keyword \in Seeds, limit \in Limits, language \in Languages,
          country \in Countries, env \in MethodEnvs :
          LET r == get_suggestions(cfg, <<>>, session, seed_keyword, limit,
                                   language, country, env)
          IN  ret' = Call("get_suggestions", seed_keyword, limit, session,
                          r, r.cached)
    /\ ncalls' = 1
    /\ UNCHANGED <<cfg, session, cache, pl>>

MGetFallbackSuggestions ==
    /\ ncalls = 0
    /\ \E seed_keyword \in Seeds, limit \in Limits,
          google \in AutoResponses, ddg \in AutoResponses :
          ret' = Call("_get_fallback_suggestions", seed_keyword, limit, session,
                      _get_fallback_suggestions(session, seed_keyword, limit,
                                                google, ddg),
                      FALSE)
    /\ ncalls' = 1
    /\ UNCHANGED <<cfg, session, cache, pl>>

MGetSerperSuggestions ==
    /\ ncalls = 0
    /\ \E seed_keyword \in Seeds, limit \in Limits, resp \in SerperResponses :
          ret' = Call("_get_serper_suggestions", seed_keyword, limit, session,
                      _get_serper_suggestions(session, resp, limit), FALSE)
    /\ ncalls' = 1
    /\ UNCHANGED <<cfg, session, cache, pl>>

MGenerateKeywordVariations ==
    /\ ncalls = 0
    /\ \E seed_keyword \in Seeds, limit \in {0} \cup Limits :
          ret' = Call("_generate_keyword_variations", seed_keyword, limit,
                      session,
                      Returned(_generate_keyword_variations(seed_keyword, limit),
                               <<>>),
                      FALSE)
    /\ ncalls' = 1
    /\ UNCHANGED <<cfg, session, cache, pl>>

NextMethods ==
    \/ MGetSuggestions
    \/ MGetFallbackSuggestions
    \/ MGetSerperSuggestions
    \/ MGenerateKeywordVariations

SpecMethods == InitMethods /\ [][NextMethods]_vars

(***************************************************************************)
(* Properties of the suggestion chain.                                     *)
(***************************************************************************)
IsGetSuggestions == ret.op = "get_suggestions"
Tiers(call) == [i \in DOMAIN call.attempts |-> call.attempts[i].tier]
IsPrefix(s, t) == Len(s) <= Len(t) /\ SubSeq(t, 1, Len(s)) = s

\* the five places of the chain, and the four tiers the specification names
\* (the two autocomplete endpoints being one tier)
TierRank(tier) ==
    CASE tier = "dataforseo" -> 1
      [] tier = "serper" -> 2
      [] tier = "google_autocomplete" -> 3
      [] tier = "duckduckgo_autocomplete" -> 4
      [] tier = "generated" -> 5
NamedTier(tier) ==
    CASE tier = "dataforseo" -> 1
      [] tier = "serper" -> 2
      [] tier = "google_autocomplete" -> 3
      [] tier = "duckduckgo_autocomplete" -> 3
      [] tier = "generated" -> 4

\* C1: get_suggestions returns a list and never raises to its caller,
\* whatever the seed, the limit, the configuration and the providers' failures.
C1_GetSuggestionsNeverRaises ==
    IsGetSuggestions => ret.exc = "none"

\* C2: with no provider credentials configured, for every seed and every
\* limit >= 1 the chain returns at least min(limit, 2 * 16) records, each
\* carrying a generated source tag.
C2_NoProvidersYieldsGenerated ==
    (IsGetSuggestions /\ ret.sess = "open"
        /\ ~cfg.dataforseo /\ ~cfg.serper /\ ~ret.cached) =>
        /\ ret.exc = "none"
        /\ Len(ret.value) >= Min(ret.limit, 2 * Len(modifiers))
        /\ \A i \in DOMAIN ret.value :
              ret.value[i].source \in {"generated", "generated_prefix"}

\* C3: when DataForSEO is configured and its call fails (401, 429, another
\* status, a network error), get_suggestions does not fail: the free
\* autocomplete tier is attempted and its records are returned.
C3_DataforseoFailureFallsThrough ==
    (/\ IsGetSuggestions
     /\ ret.attempts # <<>>
     /\ ret.attempts[1].tier = "dataforseo"
     /\ ret.attempts[1].exc \in {"APIKeyMissingError", "APIRateLimitError",
                                 "APIRequestError"}) =>
        /\ ret.exc = "none"
        /\ \E i \in DOMAIN ret.attempts :
              /\ ret.attempts[i].tier = "google_autocomplete"
              /\ ret.value = Take(ret.attempts[Len(ret.attempts)].after,
                                  ret.limit)

C5_ToppedUpUntilLimit ==
    (IsGetSuggestions /\ ret.exc = "none" /\ ret.attempts # <<>>) =>
        LET a == ret.attempts
        IN  /\ \A i \in DOMAIN a :
                  i < Len(a) => IsPrefix(a[i].after, a[i + 1].after)
            /\ Len(a[Len(a)].after) < ret.limit
                   => a[Len(a)].tier = "generated"

\* C5, amended: records are topped up only inside the free tier, where
\* DuckDuckGo's texts are added to Google's and, when the two together gave
\* fewer than 10 records, generated variations are added up to the limit;
\* after DataForSEO or Serper produced a record nothing is added, even below
\* the limit.  What a tier gathered is never replaced by a later tier: the
\* call returns the first `limit` of the records gathered, in tier order.
C5_RecordsKeptAndToppedUp ==
    (ret.op \in {"get_suggestions", "_get_fallback_suggestions"}
        /\ ret.exc = "none" /\ ret.attempts # <<>>) =>
        LET a == ret.attempts
            last == a[Len(a)]
        IN  /\ \A i \in DOMAIN a :
                  i < Len(a) => IsPrefix(a[i].after, a[i + 1].after)
            /\ ret.value = Take(last.after, ret.limit)
            /\ last.tier \in {"dataforseo", "serper"} =>
                  Len(a) = 1 /\ Len(last.after) = last.n
            /\ last.tier = "generated" =>
                  Len(ret.value)
                      = Min(ret.limit, Len(a[Len(a) - 1].after)
                                           + 2 * Len(modifiers))

\* C5, witness: a fallback call whose result holds records of Google, of
\* DuckDuckGo and of the generator, in that order
C5_AllThreeKept ==
    /\ ret.op = "_get_fallback_suggestions"
    /\ Len(ret.attempts) = 3
    /\ \A i \in 1..3 : ret.attempts[i].n > 0
    /\ Len(ret.value) = ret.attempts[1].n + ret.attempts[2].n
                            + ret.attempts[3].n
    /\ ret.value[1].source = "google_autocomplete"
    /\ ret.value[Len(ret.value)].source \in {"generated", "generated_prefix"}

\* C6: get_suggestions never returns more than `limit` records, whichever
\* tier produced them and whether the result is fresh or from the cache.
C6_AtMostLimit ==
    (IsGetSuggestions /\ ret.exc = "none") => Len(ret.value) <= ret.limit

\* C6, witness: a cache hit on an entry longer than the limit
C6_CacheHitTruncated ==
    /\ IsGetSuggestions
    /\ ret.cached
    /\ ret.exc = "none"
    /\ \E k \in DOMAIN cache :
          Len(cache[k]) > ret.limit /\ ret.value = Take(cache[k], ret.limit)

(***************************************************************************)
(* schemas/keyword_schemas.py: KeywordMetrics, as the orchestrator builds  *)
(* it from a suggestion.  Scores are kept in hundredths (0.65 is 65) and   *)
(* prices in cents.                                                        *)
(***************************************************************************)
KeywordMetrics(kw) ==
    [keyword |-> kw.keyword, search_volume |-> kw.search_volume,
     competition |-> kw.competition,
     competition_score |-> kw.competition_score, cpc |-> kw.cpc,
     intent |-> "unknown", difficulty |-> {}, difficulty_score |-> {}]

(***************************************************************************)
(* VolumeCompetitionService.  hash(text) is Python's salted string hash:   *)
(* one value per text within a process, the salt being the process's hash  *)
(* seed.                                                                   *)
(***************************************************************************)
HashSalts == {0, 7919}

Hash(keyword, salt) == Len(keyword) * 1000003 + salt

\* what the Keyword Planner call ends with: an error, ideas that miss the
\* requested texts, or ideas for each of them
AdsResponses == {"error", "other_ideas", "ideas"}

\* and ideas whose figures lie in the bands the estimator draws from
AdsAnswers == AdsResponses \cup {"ideas_in_band"}

_map_competition_level(competition_str) ==
    IF competition_str = {} THEN "unknown"
    ELSE LET s == CHOOSE x \in competition_str : TRUE
         IN  IF s \in {"LOW", "low"} THEN "low"
             ELSE IF s \in {"MEDIUM", "medium"} THEN "medium"
             ELSE IF s \in {"HIGH", "high"} THEN "high"
             ELSE "unknown"

\* metrics_map: the texts of the answer and their metrics
_fetch_google_ads_metrics(google_ads_client, keywords, resp) ==
    IF ~google_ads_client \/ resp \notin {"ideas", "ideas_in_band"} THEN <<>>
    ELSE IF resp = "ideas_in_band"
    THEN [k \in Range(keywords) |->
            [search_volume |-> {15003}, competition |-> {"HIGH"},
             competition_index |-> {83}, cpc |-> {420}]]
    ELSE [k \in Range(keywords) |->
            [search_volume |-> {1200}, competition |-> {"HIGH"},
             competition_index |-> {65}, cpc |-> {150}]]

_enrich_with_google_ads(google_ads_client, keywords, resp) ==
    LET metrics_map ==
            _fetch_google_ads_metrics(
                google_ads_client,
                [i \in DOMAIN keywords |-> keywords[i].keyword], resp)
        Enriched(kw) ==
            IF kw.keyword \in DOMAIN metrics_map
            THEN LET metrics == metrics_map[kw.keyword]
                 IN  [kw EXCEPT
                        !.search_volume = metrics.search_volume,
                        !.competition =
                            _map_competition_level(metrics.competition),
                        !.competition_score = metrics.competition_index,
                        !.cpc = metrics.cpc]
            ELSE [kw EXCEPT !.competition = _map_competition_level({})]
    IN  [i \in DOMAIN keywords |-> Enriched(keywords[i])]

_enrich_with_estimation(keywords, salt) ==
    LET Estimated(kw) ==
            LET word_count == Len(kw.keyword)
                h == Hash(kw.keyword, salt)
            IN  IF \E v \in kw.search_volume : v > 0 THEN kw
                ELSE [kw EXCEPT
                        !.search_volume =
                            IF word_count <= 2 THEN {5000 + (h % 45000)}
                            ELSE IF word_count = 3 THEN {1000 + (h % 9000)}
                            ELSE {100 + (h % 900)},
                        !.competition =
                            IF word_count <= 2 THEN "high"
                            ELSE IF word_count = 3 THEN "medium"
                            ELSE "low",
                        !.competition_score =
                            IF word_count <= 2 THEN {Min(100, 70 + (h % 30))}
                            ELSE IF word_count = 3
                            THEN {Min(100, 40 + (h % 30))}
                            ELSE {Min(100, 10 + (h % 30))},
                        !.cpc = {Max(10, 500 - word_count * 80)}]
    IN  [i \in DOMAIN keywords |-> Estimated(keywords[i])]

\* the result names the branch that produced it
enrich_keywords(google_ads_client, keywords, salt, resp) ==
    IF keywords = <<>> THEN [value |-> <<>>, by |-> "empty"]
    ELSE IF google_ads_client
    THEN [value |-> _enrich_with_google_ads(google_ads_client, keywords, resp),
          by |-> "google_ads"]
    ELSE [value |-> _enrich_with_estimation(keywords, salt),
          by |-> "estimation"]

(***************************************************************************)
(* SERPAnalysisService.                                                    *)
(***************************************************************************)
SerpFeatureSets ==
    {<<>>, <<"featured_snippet">>,
     <<"featured_snippet", "knowledge_panel", "local_pack">>}

SerpResponses ==
    [kind : {"http"}, status : {401, 429, 500}, organic : {0},
     features : {<<>>}]
    \cup [kind : {"network_error", "bad_body"}, status : {200},
          organic : {0}, features : {<<>>}]
    \cup [kind : {"ok"}, status : {200}, organic : {0, 2},
          features : SerpFeatureSets]

SerpCacheKey(keyword, language, country, device) ==
    keyword \o <<"_">> \o language \o <<"_">> \o country \o <<"_", device>>

SERPAnalysisResponse(keyword, organic_results, features, api, insights) ==
    [keyword |-> keyword, organic_results |-> organic_results,
     features |-> features, serp_api_used |-> api,
     cached |-> FALSE, insights |-> insights]

_parse_serpapi_response(keyword, data) ==
    SERPAnalysisResponse(
        keyword,
        [i \in 1..Min(data.organic, 10) |->
            [position |-> i, title |-> <<"title", ToString(i)>>,
             snippet |-> <<"snippet", ToString(i)>>,
             domain |-> <<"site", ToString(i)>>]],
        data.features, "serpapi", {})

_parse_valueserp_response(keyword, data) ==
    _parse_serpapi_response(keyword, data)

_create_mock_serp_response(keyword) ==
    SERPAnalysisResponse(
        keyword, <<>>, <<>>, "none",
        {[kind |-> "dict",
          members |-> [warning |-> "No SERP API configured"]]})

_analyze_with_serpapi(sess, keyword, resp) ==
    IF sess = "none" THEN Raised("RuntimeError", <<>>)
    ELSE IF sess = "closed" THEN Raised("RuntimeError", <<>>)
    ELSE IF resp.kind = "network_error" THEN Raised("APIRequestError", <<>>)
    ELSE IF resp.status = 401 THEN Raised("APIKeyMissingError", <<>>)
    ELSE IF resp.status = 429 THEN Raised("APIRequestError", <<>>)
    ELSE IF resp.status # 200 THEN Raised("APIRequestError", <<>>)
    ELSE IF resp.kind = "bad_body" THEN Raised("JSONDecodeError", <<>>)
    ELSE Returned(_parse_serpapi_response(keyword, resp), <<>>)

_analyze_with_valueserp(sess, keyword, resp) ==
    IF sess = "none" THEN Raised("RuntimeError", <<>>)
    ELSE IF sess = "closed" THEN Raised("RuntimeError", <<>>)
    ELSE IF resp.kind = "network_error" THEN Raised("APIRequestError", <<>>)
    ELSE IF resp.status = 401 THEN Raised("APIKeyMissingError", <<>>)
    ELSE IF resp.status # 200 THEN Raised("APIRequestError", <<>>)
    ELSE IF resp.kind = "bad_body" THEN Raised("JSONDecodeError", <<>>)
    ELSE Returned(_parse_valueserp_response(keyword, resp), <<>>)

\* a slip: the cached response is returned as it was stored
CachedUnmarked(cached) == cached

\* cached.cached = True
MarkCached(cached) == [cached EXCEPT !.cached = TRUE]

\* the result carries the instance's cache after the call and the adapter
\* the call entered, with the exception it ended with; the cached response
\* is the object in the cache, so the mark is set there too
analyze_serp(c, theCache, sess, keyword, language, country, device, resp) ==
    LET cache_key == SerpCacheKey(keyword, language, country, device)
        tier == IF c.serpapi_key THEN "serpapi"
                ELSE IF c.valueserpapi_key THEN "valueserp" ELSE "mock"
        r == IF c.serpapi_key THEN _analyze_with_serpapi(sess, keyword, resp)
             ELSE IF c.valueserpapi_key
             THEN _analyze_with_valueserp(sess, keyword, resp)
             ELSE Returned(_create_mock_serp_response(keyword), <<>>)
    IN  IF cache_key \in DOMAIN theCache
        THEN [exc |-> "none",
              value |-> MarkCached(theCache[cache_key]),
              cache |-> [theCache EXCEPT ![cache_key] = MarkCached(@)],
              attempts |-> <<>>]
        ELSE IF r.exc # "none"
        THEN [exc |-> r.exc, value |-> r.value, cache |-> theCache,
              attempts |-> <<[tier |-> tier, exc |-> r.exc]>>]
        ELSE [exc |-> "none", value |-> r.value,
              cache |-> CachePut(theCache, cache_key, r.value),
              attempts |-> <<[tier |-> tier, exc |-> "none"]>>]

(***************************************************************************)
(* LangChainAnalysisService.  A model reply is its text, as a sequence of  *)
(* tokens, and the JSON document its "json" token (if any) decodes to:     *)
(*   "ws"          whitespace                                              *)
(*   "fence_json"  three backquotes followed by the word json              *)
(*   "fence"       three backquotes                                        *)
(*   "json"        one complete JSON document                              *)
(*   "text"        anything else                                           *)
(* A JSON value is [kind, members]: kind "dict" with the record of its     *)
(* members, or kind "list".                                                *)
(***************************************************************************)
JsonDict(members) == [kind |-> "dict", members |-> members]
JsonList == [kind |-> "list", members |-> <<>>]

\* dict.get(key, default)
Get(d, key, default) == IF key \in DOMAIN d THEN d[key] ELSE default

ReplyTexts ==
    {<<"json">>,
     <<"ws", "json", "ws">>,
     <<"fence_json", "ws", "json", "ws", "fence">>,
     <<"fence", "ws", "json", "ws", "fence", "ws">>,
     <<"text">>,
     <<"text", "ws", "fence_json", "ws", "json", "ws", "fence">>,
     <<"fence_json", "ws", "json", "ws", "fence", "ws", "text">>,
     <<"json", "ws", "json">>,
     <<>>}

ReplyBodies == {"good", "odd", "list"}

\* call is "error" when chain.invoke raises
Replies ==
    [call : {"ok"}, content : ReplyTexts, body : ReplyBodies]
    \cup [call : {"error"}, content : {<<>>}, body : {"good"}]

RECURSIVE LStrip(_)
LStrip(s) == IF s # <<>> /\ Head(s) = "ws" THEN LStrip(Tail(s)) ELSE s

RECURSIVE RStrip(_)
RStrip(s) ==
    IF s # <<>> /\ s[Len(s)] = "ws" THEN RStrip(SubSeq(s, 1, Len(s) - 1))
    ELSE s

\* str.strip()
Strip(s) == RStrip(LStrip(s))

\* the exception of json.loads on the cleaned text ("none" if it decodes)
_parse_json_response(content) ==
    LET c1 == Strip(content)
        c2 == IF c1 # <<>> /\ Head(c1) = "fence_json" THEN Tail(c1)
              ELSE IF c1 # <<>> /\ Head(c1) = "fence" THEN Tail(c1)
              ELSE c1
        c3 == IF c2 # <<>> /\ c2[Len(c2)] = "fence"
              THEN SubSeq(c2, 1, Len(c2) - 1) ELSE c2
        c4 == Strip(c3)
    IN  IF c4 = <<"json">> THEN "none" ELSE "JSONDecodeError"

\* a task's result: malformed says that the reply did not parse as JSON
TaskResult(exc, value, malformed) ==
    [exc |-> exc, value |-> value, malformed |-> malformed]

\* a slip: the parse error leaves the task
OnParseErrorPropagating(exc, default) == TaskResult(exc, default, TRUE)

\* except Exception as e: log it and return the task's default
OnParseError(exc, default) == TaskResult("none", default, TRUE)

\* str.upper() on the names a reply may use
Upper(s) ==
    CASE s \in {"informational", "Informational"} -> "INFORMATIONAL"
      [] s = "commercial" -> "COMMERCIAL"
      [] s = "transactional" -> "TRANSACTIONAL"
      [] s = "navigational" -> "NAVIGATIONAL"
      [] s = "unknown" -> "UNKNOWN"
      [] s = "research" -> "RESEARCH"
      [] s = "howto" -> "HOWTO"
      [] OTHER -> s

\* SearchIntent[name], KeyError caught
SearchIntentByName(name) ==
    CASE name = "INFORMATIONAL" -> "informational"
      [] name = "COMMERCIAL" -> "commercial"
      [] name = "TRANSACTIONAL" -> "transactional"
      [] name = "NAVIGATIONAL" -> "navigational"
      [] OTHER -> "unknown"

\* DifficultyLevel[name], KeyError caught
DifficultyLevelByName(name) ==
    CASE name = "VERY_EASY" -> "very_easy"
      [] name = "EASY" -> "easy"
      [] name = "MEDIUM" -> "medium"
      [] name = "HARD" -> "hard"
      [] name = "VERY_HARD" -> "very_hard"
      [] OTHER -> "medium"

\* the documents a reply to the intent prompt may carry
IntentBody(body, keywords) ==
    CASE body = "good" ->
            JsonDict([classifications |->
                [i \in DOMAIN keywords |->
                    [keyword |-> keywords[i], intent |-> "commercial"]]])
      [] body = "odd" ->
            JsonDict([classifications |->
                [i \in 1..(Len(keywords) - 1) |->
                    [keyword |-> keywords[i],
                     intent |-> IF i = 1 THEN "research"
                                ELSE "Informational"]]])
      [] OTHER -> JsonList

classify_intent(keywords, reply) ==
    LET default == [k \in Range(keywords) |-> "unknown"]
        exc == _parse_json_response(reply.content)
        result == IntentBody(reply.body, keywords)
        cls == Get(result.members, "classifications", <<>>)
        Last(k) == CHOOSE i \in DOMAIN cls :
                      /\ cls[i].keyword = k
                      /\ \A j \in DOMAIN cls : cls[j].keyword = k => j <= i
    IN  IF keywords = <<>> THEN TaskResult("none", <<>>, FALSE)
        ELSE IF reply.call = "error"
        THEN TaskResult("LLMError", <<>>, FALSE)
        ELSE IF exc # "none" THEN OnParseError(exc, default)
        ELSE IF result.kind # "dict"
        THEN TaskResult("none", default, FALSE)
        ELSE TaskResult(
                "none",
                [k \in {cls[i].keyword : i \in DOMAIN cls} |->
                    SearchIntentByName(Upper(cls[Last(k)].intent))],
                FALSE)

RECURSIVE SumSeq(_)
SumSeq(s) == IF s = <<>> THEN 0 ELSE Head(s) + SumSeq(Tail(s))

\* [kw.search_volume for kw in keywords
\*    if kw.keyword in cluster_keywords and kw.search_volume]
RECURSIVE VolumesOf(_, _)
VolumesOf(keywords, cluster_keywords) ==
    IF keywords = <<>> THEN <<>>
    ELSE LET kw == Head(keywords)
         IN  (IF /\ kw.keyword \in Range(cluster_keywords)
                 /\ \E v \in kw.search_volume : v # 0
              THEN <<CHOOSE v \in kw.search_volume : TRUE>> ELSE <<>>)
             \o VolumesOf(Tail(keywords), cluster_keywords)

\* the documents a reply to the clustering prompt may carry
ClusterBody(body, texts) ==
    CASE body = "good" ->
            JsonDict([clusters |->
                <<[cluster_id |-> 7, cluster_name |-> <<"Topic">>,
                   keywords |-> Take(texts, 1), intent |-> "commercial",
                   recommendation |-> {"pillar page"}],
                  [keywords |-> SubSeq(texts, 2, Len(texts)),
                   intent |-> "howto"]>>])
      [] body = "odd" ->
            JsonDict([clusters |->
                <<[cluster_name |-> <<"Topic">>, keywords |-> texts,
                   intent |-> "commercial"],
                  [cluster_name |-> <<"Empty">>, keywords |-> <<>>]>>])
      [] OTHER -> JsonList

\* KeywordCluster(...) for the idx-th (from 1) cluster of the reply
KeywordCluster(cluster_data, idx, keywords) ==
    LET cluster_keywords == Get(cluster_data, "keywords", <<>>)
        volumes == VolumesOf(keywords, cluster_keywords)
    IN  [cluster_id |-> Get(cluster_data, "cluster_id", idx),
         cluster_name |->
            Get(cluster_data, "cluster_name", <<"Cluster", ToString(idx)>>),
         primary_keyword |->
            Get(cluster_data, "primary_keyword",
                IF cluster_keywords # <<>> THEN cluster_keywords[1]
                ELSE <<>>),
         keywords |-> cluster_keywords,
         intent |->
            SearchIntentByName(Upper(Get(cluster_data, "intent", "UNKNOWN"))),
         avg_search_volume |->
            IF volumes # <<>> THEN {SumSeq(volumes) \div Len(volumes)}
            ELSE {},
         recommendation |-> Get(cluster_data, "recommendation", {})]

cluster_keywords(keywords, reply) ==
    LET exc == _parse_json_response(reply.content)
        result == ClusterBody(reply.body,
                              [i \in DOMAIN keywords |-> keywords[i].keyword])
        data == Get(result.members, "clusters", <<>>)
        clusters == [i \in DOMAIN data |->
                        KeywordCluster(data[i], i, keywords)]
    IN  IF keywords = <<>> THEN TaskResult("none", <<>>, FALSE)
        ELSE IF reply.call = "error"
        THEN TaskResult("LLMError", <<>>, FALSE)
        ELSE IF exc # "none" THEN OnParseError(exc, <<>>)
        ELSE IF result.kind # "dict" THEN TaskResult("none", <<>>, FALSE)
        ELSE IF \E i \in DOMAIN clusters : clusters[i].keywords = <<>>
        THEN \* KeywordCluster.keywords has min_items=1: ValidationError
             TaskResult("none", <<>>, FALSE)
        ELSE TaskResult("none", clusters, FALSE)

\* the documents a reply to the difficulty prompt may carry
DifficultyBody(body) ==
    CASE body = "good" ->
            JsonDict([difficulty_level |-> "HARD", difficulty_score |-> 72])
      [] body = "odd" ->
            JsonDict([difficulty_level |-> "EXTREME", difficulty_score |-> 150])
      [] OTHER -> JsonList

analyze_difficulty(keyword, reply) ==
    LET exc == _parse_json_response(reply.content)
    IN  IF reply.call = "error" THEN TaskResult("LLMError", JsonList, FALSE)
        ELSE IF exc # "none"
        THEN OnParseError(
                exc,
                JsonDict([keyword |-> keyword, difficulty_level |-> "MEDIUM",
                          difficulty_score |-> 50,
                          reasoning |-> "Unable to analyze difficulty"]))
        ELSE TaskResult("none", DifficultyBody(reply.body), FALSE)

\* the documents a reply to the recommendation prompt may carry
RecommendationBody(body) ==
    CASE body = "good" ->
            JsonDict([overall_strategy |-> "Target long-tail terms"])
      [] body = "odd" -> JsonDict([quick_wins |-> <<>>])
      [] OTHER -> JsonList

\* serp_features: the SERPFeature objects handed over in serp_insights;
\* json.dumps cannot serialise them
generate_recommendations(serp_features, reply) ==
    LET exc == _parse_json_response(reply.content)
    IN  IF serp_features # <<>> THEN TaskResult("TypeError", JsonList, FALSE)
        ELSE IF reply.call = "error"
        THEN TaskResult("LLMError", JsonList, FALSE)
        ELSE IF exc # "none"
        THEN OnParseError(
                exc,
                JsonDict([overall_strategy |->
                            "Unable to generate recommendations"]))
        ELSE TaskResult("none", RecommendationBody(reply.body), FALSE)

\* the documents a reply to the content-gap prompt may carry
ContentGapBody(body) ==
    CASE body = "good" ->
            JsonDict([common_themes |-> <<"guides">>,
                      content_gaps |-> <<"pricing">>,
                      recommended_format |-> "listicle"])
      [] body = "odd" -> JsonDict([common_themes |-> <<"guides">>])
      [] OTHER -> JsonList

analyze_content_gaps(keyword, reply) ==
    LET exc == _parse_json_response(reply.content)
    IN  IF reply.call = "error" THEN TaskResult("LLMError", JsonList, FALSE)
        ELSE IF exc # "none"
        THEN OnParseError(
                exc,
                JsonDict([common_themes |-> <<>>, content_gaps |-> <<>>]))
        ELSE TaskResult("none", ContentGapBody(reply.body), FALSE)

(***************************************************************************)
(* One request, from the router that receives it to the status it answers  *)
(* with.  The handler's calls are taken one stage at a time, in the order  *)
(* of the code; pl.pc names the stage that comes next.  pl.log keeps, for  *)
(* each stage taken, the branch it took (by), the exception the service    *)
(* call ended with and whether a model reply failed to parse.              *)
(***************************************************************************)
Endpoints ==
    {"suggest", "analyze", "metrics", "cluster", "serp_analyze",
     "competitors"}

\* the calls of each handler, in order, with the recommendations of the full
\* analysis asked for before the clustering
StagesClusteringLast(endpoint) ==
    CASE endpoint \in {"analyze", "metrics"} ->
            <<"suggestions", "volume", "intent", "serp", "difficulty",
              "recommendations", "clustering", "compile", "respond", "done">>
      [] endpoint = "suggest" ->
            <<"suggestions", "volume", "compile", "respond", "done">>
      [] endpoint = "serp_analyze" ->
            <<"serp", "content_gaps", "compile", "respond", "done">>
      [] endpoint = "cluster" -> <<"clustering", "respond", "done">>
      [] OTHER -> <<"serp", "respond", "done">>

\* the calls of each handler, in order
Stages(endpoint) ==
    CASE endpoint \in {"analyze", "metrics"} ->
            <<"suggestions", "volume", "intent", "serp", "difficulty",
              "clustering", "recommendations", "compile", "respond", "done">>
      [] endpoint = "suggest" ->
            <<"suggestions", "volume", "compile", "respond", "done">>
      [] endpoint = "serp_analyze" ->
            <<"serp", "content_gaps", "compile", "respond", "done">>
      [] endpoint = "cluster" -> <<"clustering", "respond", "done">>
      [] OTHER -> <<"serp", "respond", "done">>

NextStage(endpoint, stage) ==
    LET s == Stages(endpoint)
    IN  s[(CHOOSE i \in DOMAIN s : s[i] = stage) + 1]

Flags ==
    [include_suggestions : BOOLEAN, include_volume : BOOLEAN,
     include_serp : BOOLEAN, include_clustering : BOOLEAN]

\* the flags each router passes to the orchestrator
FlagsOf(endpoint) ==
    CASE endpoint = "analyze" -> Flags
      [] endpoint = "metrics" ->
            {[include_suggestions |-> FALSE, include_volume |-> TRUE,
              include_serp |-> TRUE, include_clustering |-> FALSE]}
      [] endpoint = "suggest" ->
            {[include_suggestions |-> TRUE, include_volume |-> TRUE,
              include_serp |-> FALSE, include_clustering |-> FALSE]}
      [] endpoint = "cluster" ->
            {[include_suggestions |-> FALSE, include_volume |-> FALSE,
              include_serp |-> FALSE, include_clustering |-> TRUE]}
      [] OTHER ->
            {[include_suggestions |-> FALSE, include_volume |-> FALSE,
              include_serp |-> TRUE, include_clustering |-> FALSE]}

\* KeywordClusterRequest.keywords (min_items=2)
ClusterRequests ==
    {<<<<"seo">>, <<"seo", "tools">>>>,
     <<<<"seo">>, <<"seo", "tools">>, <<"seo", "audit", "tools">>>>}

PipelineLimits == {1, MaxLimit}

PlIdle ==
    [pc |-> "idle", endpoint |-> "none", seed_keyword |-> <<>>, limit |-> 0,
     flags |-> [include_suggestions |-> FALSE, include_volume |-> FALSE,
                include_serp |-> FALSE, include_clustering |-> FALSE],
     google_ads_client |-> FALSE, salt |-> 0,
     suggestions |-> <<>>, keyword_metrics |-> <<>>, serp_data |-> {},
     clusters |-> <<>>, insights |-> {}, data_sources |-> <<>>,
     exc |-> "none", failed |-> "none", status |-> 0, log |-> <<>>,
     replies |-> <<>>, raw |-> <<>>,
     sessions |-> [suggestion |-> "none", serp |-> "none"],
     used |-> [suggestion |-> "unused", serp |-> "unused"]]

Log(p, stage, by, exc, malformed) ==
    [p EXCEPT !.log = (stage :> [by |-> by, exc |-> exc,
                                 malformed |-> malformed]) @@ @]

\* the reply a model call of the stage got: whether chain.invoke returned
\* and, for a reply that parsed, the document it carried (kept for the
\* intent call, whose output does not tell the documents apart)
Heard(p, stage, reply) ==
    [p EXCEPT !.replies =
        (stage :> [call |-> reply.call,
                   body |-> IF /\ reply.call = "ok"
                               /\ _parse_json_response(reply.content) = "none"
                            THEN reply.body ELSE "none"]) @@ @]

\* the stage returned: on to the next call
Advance(p) == [p EXCEPT !.pc = NextStage(p.endpoint, p.pc)]

\* __aenter__: self.session = aiohttp.ClientSession()
__aenter__(sess) == "open"

\* a slip: the session is left as it is
AExitLeavingOpen(sess) == sess

\* __aexit__: if self.session: await self.session.close()
__aexit__(sess) == IF sess = "none" THEN sess ELSE "closed"

\* async with Service() as service: the instance is made and entered; used
\* is the session the call of the block is made on
Within(p, service) ==
    [p EXCEPT !.sessions[service] = __aenter__("none"),
              !.used[service] = __aenter__("none")]

\* the end of the async with block
Leave(p, service) == [p EXCEPT !.sessions[service] = __aexit__(@)]

\* the stage raised: the exception leaves the blocks it is in and the
\* orchestrator for the router
Fail(p, exc) ==
    [p EXCEPT !.pc = "respond", !.exc = exc, !.failed = p.pc,
              !.sessions = [s \in DOMAIN p.sessions |->
                                __aexit__(p.sessions[s])]]

\* the request runs analyze_keyword_complete
FullAnalysisOf(p) == p.endpoint \in {"analyze", "metrics"}

\* Step 1 of analyze_keyword_complete; get_keyword_suggestions_only
SuggestionStage(p, c, env) ==
    LET w == Within(p, "suggestion")
        r == get_suggestions(c, <<>>, w.sessions.suggestion, p.seed_keyword,
                             p.limit, <<"en">>, <<"us">>, env)
        q == Leave(w, "suggestion")
    IN  IF ~p.flags.include_suggestions
        THEN Advance([Log(p, "suggestions", "seed", "none", FALSE) EXCEPT
                        !.suggestions =
                            <<KeywordSuggestion(p.seed_keyword, "seed")>>])
        ELSE IF r.exc # "none"
        THEN Fail(Log(w, "suggestions", "service", r.exc, FALSE), r.exc)
        ELSE Advance([Log(q, "suggestions", "service", "none", FALSE) EXCEPT
                        !.suggestions = r.value])

\* Steps 2 and 3 of analyze_keyword_complete; the enrichment of
\* get_keyword_suggestions_only
VolumeStage(p, resp) ==
    LET r == enrich_keywords(p.google_ads_client, p.suggestions, p.salt, resp)
        suggestions == IF p.flags.include_volume THEN r.value
                       ELSE p.suggestions
        \* the branch taken; the Keyword Planner branch is told apart by
        \* whether the fetch failed and whether the answer held metrics for
        \* the keywords
        by == IF ~p.flags.include_volume THEN "skipped"
              ELSE IF r.by = "google_ads" /\ resp = "error"
              THEN "google_ads_failed"
              ELSE IF r.by = "google_ads" /\ resp # "ideas"
              THEN "google_ads_no_data" ELSE r.by
        q == Log(p, "volume", by, "none", FALSE)
    IN  Advance([q EXCEPT
                   !.raw = p.suggestions,
                   !.suggestions = suggestions,
                   !.keyword_metrics =
                       IF p.endpoint = "suggest" THEN <<>>
                       ELSE [i \in DOMAIN suggestions |->
                                KeywordMetrics(suggestions[i])]])

\* Step 4 of analyze_keyword_complete
IntentStage(p, reply) ==
    LET r == classify_intent(
                [i \in DOMAIN p.keyword_metrics |->
                    p.keyword_metrics[i].keyword], reply)
        q == Heard(Log(p, "intent", "llm", r.exc, r.malformed), "intent", reply)
    IN  IF r.exc # "none" THEN Fail(q, r.exc)
        ELSE Advance([q EXCEPT
                        !.keyword_metrics =
                            [i \in DOMAIN p.keyword_metrics |->
                                [p.keyword_metrics[i] EXCEPT !.intent =
                                    Get(r.value, p.keyword_metrics[i].keyword,
                                        "unknown")]]])

\* Step 5 of analyze_keyword_complete, the fetch; the fetch of
\* analyze_serp_with_insights and of the competitors handler
SerpStage(p, c, resp) ==
    LET w == Within(p, "serp")
        r == analyze_serp(c, <<>>, w.sessions.serp, p.seed_keyword, <<"en">>,
                          <<"us">>, "desktop", resp)
        by == IF c.serpapi_key THEN "serpapi"
              ELSE IF c.valueserpapi_key THEN "valueserp" ELSE "mock"
        \* analyze_keyword_complete scores the difficulty inside the block
        q == IF FullAnalysisOf(p) THEN w ELSE Leave(w, "serp")
    IN  IF ~p.flags.include_serp
        THEN Advance(Log(p, "serp", "skipped", "none", FALSE))
        ELSE IF r.exc # "none"
        THEN Fail(Log(w, "serp", by, r.exc, FALSE), r.exc)
        ELSE Advance([Log(q, "serp", by, "none", FALSE) EXCEPT
                        !.serp_data = {r.value}])

\* Step 5 of analyze_keyword_complete, the difficulty of the seed keyword
DifficultyStage(p, reply) ==
    LET matches == {i \in DOMAIN p.keyword_metrics :
                        p.keyword_metrics[i].keyword = p.seed_keyword}
        seed_idx == CHOOSE i \in matches : \A j \in matches : i <= j
        r == analyze_difficulty(p.seed_keyword, reply)
        q == Log(p, "difficulty", "llm", r.exc, r.malformed)
        difficulty_analysis == r.value
    IN  IF ~p.flags.include_serp \/ matches = {}
        THEN Advance(Leave(Log(p, "difficulty", "skipped", "none", FALSE),
                           "serp"))
        ELSE IF r.exc # "none" THEN Fail(q, r.exc)
        ELSE IF difficulty_analysis.kind # "dict"
        THEN \* difficulty_analysis.get on a value that is no dict
             Fail([q EXCEPT !.log["difficulty"].exc = "AttributeError"],
                  "AttributeError")
        ELSE Advance([Leave(q, "serp") EXCEPT
                !.keyword_metrics[seed_idx].difficulty =
                    {DifficultyLevelByName(
                        Get(difficulty_analysis.members, "difficulty_level",
                            "MEDIUM"))},
                !.keyword_metrics[seed_idx].difficulty_score =
                    {Get(difficulty_analysis.members, "difficulty_score", 50)}])

\* a slip: one keyword is taken for enough
EnoughToClusterFromOne(keyword_metrics) == Len(keyword_metrics) >= 1

\* len(keyword_metrics) >= 2
EnoughToCluster(keyword_metrics) == Len(keyword_metrics) >= 2

\* Step 6 of analyze_keyword_complete; the clustering of the cluster handler,
\* which calls cluster_keywords on the keywords of its request as they are
ClusteringStage(p, reply) ==
    LET r == cluster_keywords(p.keyword_metrics, reply)
        q == Log(p, "clustering", "llm", r.exc, r.malformed)
    IN  IF /\ p.endpoint # "cluster"
           /\ ~(p.flags.include_clustering /\ EnoughToCluster(p.keyword_metrics))
        THEN Advance(Log(p, "clustering", "skipped", "none", FALSE))
        ELSE IF r.exc # "none" THEN Fail(q, r.exc)
        ELSE Advance([q EXCEPT !.clusters = r.value])

\* Step 7 of analyze_keyword_complete
RecommendationStage(p, reply) ==
    LET serp_features ==
            IF p.serp_data = {} THEN <<>>
            ELSE (CHOOSE s \in p.serp_data : TRUE).features
        r == generate_recommendations(serp_features, reply)
        q == Log(p, "recommendations", "llm", r.exc, r.malformed)
    IN  IF r.exc # "none" THEN Fail(q, r.exc)
        ELSE Advance([q EXCEPT !.insights = {r.value}])

\* the content-gap analysis of analyze_serp_with_insights
ContentGapStage(p, reply) ==
    LET serp_data == CHOOSE s \in p.serp_data : TRUE
        r == analyze_content_gaps(p.seed_keyword, reply)
        q == Log(p, "content_gaps", "llm", r.exc, r.malformed)
    IN  IF serp_data.organic_results = <<>>
        THEN Advance(Log(p, "content_gaps", "skipped", "none", FALSE))
        ELSE IF r.exc # "none" THEN Fail(q, r.exc)
        ELSE Advance([q EXCEPT
                        !.serp_data =
                            {[serp_data EXCEPT !.insights = {r.value}]}])

\* "Compile results": the data_sources of the returned dict
CompileStage(p) ==
    Advance([p EXCEPT
        !.data_sources =
            IF p.endpoint = "serp_analyze" THEN <<>>
            ELSE <<"keyword_suggestion">>
                 \o (IF p.flags.include_volume
                     THEN <<"volume_competition">> ELSE <<>>)
                 \o (IF p.flags.include_serp
                     THEN <<"serp_analysis">> ELSE <<>>)
                 \o (IF p.endpoint = "suggest" THEN <<>>
                     ELSE <<"langchain_ai">>)])

\* what becomes of the orchestrator's result on its way out: the exception
\* this ends with ("none" if the answer is sent).  Fields assigned after a
\* record was built (validate_assignment is off) are checked again only if
\* the framework validates the records of the response model anew, which
\* depends on its version: revalidate.
BuildResponse(p, revalidate) ==
    CASE p.endpoint = "analyze" ->
            \* KeywordAnalysisResponse(**result): insights is an
            \* Optional[Dict]; KeywordMetrics.difficulty_score has le=100
            IF \E v \in p.insights : v.kind # "dict"
            THEN "ValidationError"
            ELSE IF /\ revalidate
                    /\ \E i \in DOMAIN p.keyword_metrics :
                         \E v \in p.keyword_metrics[i].difficulty_score :
                            v < 0 \/ v > 100
            THEN "ResponseValidationError"
            ELSE "none"
      [] p.endpoint = "metrics" ->
            IF p.keyword_metrics # <<>> THEN "none" ELSE "HTTPException"
      [] p.endpoint = "serp_analyze" ->
            \* SERPAnalysisResponse.insights is an Optional[Dict]
            IF /\ revalidate
               /\ \E r \in p.serp_data : \E v \in r.insights : v.kind # "dict"
            THEN "ResponseValidationError" ELSE "none"
      [] OTHER -> "none"

\* the except clauses of each handler
StatusOf(endpoint, exc) ==
    IF exc = "none" THEN 200
    ELSE IF exc = "ResponseValidationError" THEN 500
    ELSE IF endpoint \in {"suggest", "analyze"}
    THEN (IF IsInstance(exc, "APIKeyMissingError") THEN 401
          ELSE IF IsInstance(exc, "APIRateLimitError") THEN 429
          ELSE IF IsInstance(exc, "SEOServiceError") THEN 503
          ELSE 500)
    ELSE IF endpoint = "serp_analyze"
    THEN (IF IsInstance(exc, "APIKeyMissingError") THEN 401
          ELSE IF IsInstance(exc, "SEOServiceError") THEN 503
          ELSE 500)
    ELSE 500

RespondStage(p, revalidate) ==
    LET exc == IF p.exc # "none" THEN p.exc
               ELSE BuildResponse(p, revalidate)
    IN  [p EXCEPT !.pc = "done", !.exc = exc,
                  !.failed = IF p.exc = "none" /\ exc # "none"
                             THEN "respond" ELSE p.failed,
                  !.status = StatusOf(p.endpoint, exc)]

\* the handler is entered: the services it constructs, and its inputs
StartRequest ==
    /\ pl.pc = "idle"
    /\ \E endpoint \in Endpoints, seed_keyword \in Seeds,
          limit \in PipelineLimits, salt \in HashSalts,
          google_ads_client \in BOOLEAN, llm_init \in {"ok", "error"},
          keywords \in ClusterRequests :
          \E flags \in FlagsOf(endpoint) :
             LET orchestrated == endpoint \in {"suggest", "analyze",
                                               "metrics", "serp_analyze"}
                 p == [PlIdle EXCEPT
                         !.pc = Stages(endpoint)[1],
                         !.endpoint = endpoint,
                         !.seed_keyword =
                             IF endpoint = "cluster" THEN <<>>
                             ELSE seed_keyword,
                         !.limit =
                             IF endpoint \in {"suggest", "analyze"}
                             THEN limit ELSE 0,
                         !.flags = flags,
                         !.google_ads_client = google_ads_client,
                         !.salt = salt,
                         !.keyword_metrics =
                             IF endpoint = "cluster"
                             THEN [i \in DOMAIN keywords |->
                                     KeywordMetrics(
                                       KeywordSuggestion(keywords[i], "api"))]
                             ELSE <<>>]
             IN  \* VolumeCompetitionService.__init__: the client exists only
                 \* with credentials, and only if its initialisation worked
                 /\ google_ads_client =>
                        orchestrated /\ has_google_ads_credentials(cfg)
                 /\ salt # 0 => endpoint \in {"suggest", "analyze", "metrics"}
                 /\ limit # 1 => endpoint \in {"suggest", "analyze"}
                 /\ seed_keyword # <<"seo">> => endpoint # "cluster"
                 /\ keywords # <<<<"seo">>, <<"seo", "tools">>>>
                        => endpoint = "cluster"
                 \* LangChainAnalysisService.__init__ raises what _init_llm
                 \* raises
                 /\ llm_init = "error" => endpoint # "competitors"
                 /\ pl' = IF llm_init = "error"
                          THEN Fail([p EXCEPT !.pc = "construct"],
                                    "LLMInitError")
                          ELSE p
    /\ UNCHANGED <<cfg, session, cache, ncalls, ret>>

StepSuggestions ==
    /\ pl.pc = "suggestions"
    /\ \E env \in Envs : pl' = SuggestionStage(pl, cfg, env)
    /\ UNCHANGED <<cfg, session, cache, ncalls, ret>>

StepVolume ==
    /\ pl.pc = "volume"
    /\ \E resp \in AdsResponses : pl' = VolumeStage(pl, resp)
    /\ UNCHANGED <<cfg, session, cache, ncalls, ret>>

StepIntent ==
    /\ pl.pc = "intent"
    /\ \E reply \in Replies : pl' = IntentStage(pl, reply)
    /\ UNCHANGED <<cfg, session, cache, ncalls, ret>>

StepSerp ==
    /\ pl.pc = "serp"
    /\ \E resp \in SerpResponses : pl' = SerpStage(pl, cfg, resp)
    /\ UNCHANGED <<cfg, session, cache, ncalls, ret>>

StepDifficulty ==
    /\ pl.pc = "difficulty"
    /\ \E reply \in Replies : pl' = DifficultyStage(pl, reply)
    /\ UNCHANGED <<cfg, session, cache, ncalls, ret>>

StepClustering ==
    /\ pl.pc = "clustering"
    /\ \E reply \in Replies : pl' = ClusteringStage(pl, reply)
    /\ UNCHANGED <<cfg, session, cache, ncalls, ret>>

StepRecommendations ==
    /\ pl.pc = "recommendations"
    /\ \E reply \in Replies : pl' = RecommendationStage(pl, reply)
    /\ UNCHANGED <<cfg, session, cache, ncalls, ret>>

StepContentGaps ==
    /\ pl.pc = "content_gaps"
    /\ \E reply \in Replies : pl' = ContentGapStage(pl, reply)
    /\ UNCHANGED <<cfg, session, cache, ncalls, ret>>

StepCompile ==
    /\ pl.pc = "compile"
    /\ pl' = CompileStage(pl)
    /\ UNCHANGED <<cfg, session, cache, ncalls, ret>>

StepRespond ==
    /\ pl.pc = "respond"
    /\ \E revalidate \in BOOLEAN : pl' = RespondStage(pl, revalidate)
    /\ UNCHANGED <<cfg, session, cache, ncalls, ret>>

InitPipeline ==
    /\ InitService
    /\ cfg.serper = FALSE
    /\ pl = PlIdle

NextPipeline ==
    \/ StartRequest
    \/ StepSuggestions
    \/ StepVolume
    \/ StepIntent
    \/ StepSerp
    \/ StepDifficulty
    \/ StepClustering
    \/ StepRecommendations
    \/ StepContentGaps
    \/ StepCompile
    \/ StepRespond

SpecPipeline == InitPipeline /\ [][NextPipeline]_vars

(***************************************************************************)
(* Properties of the pipelines and of the routers.                         *)
(***************************************************************************)
FullAnalysis == pl.endpoint \in {"analyze", "metrics"}
Taken(stage) == stage \in DOMAIN pl.log
LLMTasks ==
    {"intent", "clustering", "difficulty", "recommendations", "content_gaps"}

\* C7: in the full-analysis pipeline a failure of an optional stage (the
\* volume enrichment or the SERP fetch) never aborts the operation: the
\* operation goes on to return a result, without that stage's contribution
\* (no serp_analysis, or the keywords as they were before enrichment).
C7_OptionalStageFailureOmitted ==
    FullAnalysis =>
        \A stage \in {"volume", "serp"} :
            (Taken(stage) /\ pl.log[stage].exc # "none") =>
                /\ pl.failed # stage
                /\ pl.pc # "respond" \/ pl.exc = "none"
                /\ stage = "serp" => pl.serp_data = {}

\* C8: on every keyword and SERP endpoint an error that reaches the caller
\* is typed by its cause: APIKeyMissingError is answered with 401,
\* APIRateLimitError with 429, any other SEOServiceError with 503, and none
\* of the three with 500.
C8_TypedStatus ==
    (pl.pc = "done" /\ IsInstance(pl.exc, "SEOServiceError")) =>
        /\ pl.exc = "APIKeyMissingError" => pl.status = 401
        /\ pl.exc = "APIRateLimitError" => pl.status = 429
        /\ pl.exc \notin {"APIKeyMissingError", "APIRateLimitError"}
                => pl.status = 503
        /\ pl.status # 500

\* C9: in every response of the orchestrator data_sources names a source
\* if and only if that source ran and contributed data to the response; a
\* stage that was skipped, or that gave only mock or heuristic placeholder
\* data, is not named.
C9_DataSourcesNameContributors ==
    (pl.pc = "done" /\ pl.exc = "none"
        /\ pl.endpoint \in {"suggest", "analyze", "metrics"}) =>
        LET named == Range(pl.data_sources)
        IN  /\ "keyword_suggestion" \in named
                <=> pl.log["suggestions"].by = "service"
            /\ "volume_competition" \in named
                <=> pl.log["volume"].by = "google_ads"
            /\ "serp_analysis" \in named
                <=> (Taken("serp")
                        /\ pl.log["serp"].by \in {"serpapi", "valueserp"})
            /\ "langchain_ai" \in named
                <=> \E t \in LLMTasks : Taken(t) /\ pl.log[t].by = "llm"

\* C10: for each interpretation task (intent classification, clustering,
\* difficulty, recommendations, content gaps) a model reply that does not
\* parse as JSON yields the task's default output (every keyword's intent
\* unknown; no cluster; difficulty medium with score 50; the text "Unable to
\* generate recommendations"; empty themes and gaps), and the task does not
\* end the pipeline: the calls after it are made and, when none of them
\* fails for a reason of its own, the operation returns a result.
C10_MalformedReplyYieldsDefault ==
    \A t \in LLMTasks :
        (Taken(t) /\ pl.log[t].malformed) =>
            /\ pl.log[t].exc = "none"
            /\ pl.failed # t
            /\ (pl.failed = "none" /\ pl.pc = "done") =>
                    pl.exc = "none" /\ pl.status = 200
            /\ t = "intent" =>
                    \A i \in DOMAIN pl.keyword_metrics :
                        pl.keyword_metrics[i].intent = "unknown"
            /\ t = "clustering" => pl.clusters = <<>>
            /\ t = "difficulty" =>
                    \E i \in DOMAIN pl.keyword_metrics :
                        /\ pl.keyword_metrics[i].keyword = pl.seed_keyword
                        /\ pl.keyword_metrics[i].difficulty = {"medium"}
                        /\ pl.keyword_metrics[i].difficulty_score = {50}
            /\ t = "recommendations" =>
                    \E v \in pl.insights :
                        /\ v.kind = "dict"
                        /\ DOMAIN v.members = {"overall_strategy"}
                        /\ v.members.overall_strategy
                                = "Unable to generate recommendations"
            /\ t = "content_gaps" =>
                    \E s \in pl.serp_data : \E v \in s.insights :
                        /\ v.kind = "dict"
                        /\ DOMAIN v.members
                                = {"common_themes", "content_gaps"}
                        /\ v.members.common_themes = <<>>
                        /\ v.members.content_gaps = <<>>

\* a full analysis that returned although the replies to the intent, the
\* clustering and the recommendation prompts were not JSON
C10_ReturnedOnDefaults ==
    /\ pl.pc = "done" /\ pl.endpoint = "analyze"
    /\ pl.exc = "none" /\ pl.status = 200
    /\ \A t \in {"intent", "clustering", "recommendations"} :
            Taken(t) /\ pl.log[t].malformed
    /\ Len(pl.keyword_metrics) >= 2
    /\ pl.clusters = <<>>

SearchIntents ==
    {"informational", "commercial", "transactional", "navigational",
     "unknown"}

\* C11: after the intent step of the full-analysis pipeline every keyword
\* record has an intent of the closed set; when the model call fails, the
\* reply does not parse, the reply omits the keyword or names an intent
\* that is not of the set, the keyword's intent is "unknown", and the
\* pipeline continues.
C11_IntentAlwaysSet ==
    (FullAnalysis /\ Taken("intent")) =>
        LET kws == pl.keyword_metrics
            heard == pl.replies["intent"]
        IN  /\ pl.failed # "intent"
            /\ \A i \in DOMAIN kws : kws[i].intent \in SearchIntents
            /\ (heard.call = "error" \/ pl.log["intent"].malformed) =>
                    \A i \in DOMAIN kws : kws[i].intent = "unknown"
            \* the "odd" document names "research" for the first keyword
            \* and leaves out the last
            /\ heard.body = "odd" =>
                    /\ kws[1].intent = "unknown"
                    /\ kws[Len(kws)].intent = "unknown"

\* the keyword records of the answer
ReturnedRecords ==
    IF pl.endpoint = "suggest" THEN pl.suggestions
    ELSE IF FullAnalysis THEN pl.keyword_metrics
    ELSE <<>>

\* C12: in every keyword record returned to a caller competition_score is
\* unset or within 0..1 (0..100 hundredths) and difficulty_score is unset
\* or within 0..100, whatever the providers and the model answered.
C12_ScoresWithinRange ==
    (pl.pc = "done" /\ pl.exc = "none") =>
        \A i \in DOMAIN ReturnedRecords :
            LET kw == ReturnedRecords[i]
            IN  /\ \A v \in kw.competition_score : 0 <= v /\ v <= 100
                /\ "difficulty_score" \in DOMAIN kw =>
                        \A v \in kw.difficulty_score : 0 <= v /\ v <= 100

RECURSIVE KnownVolumesOf(_, _)
KnownVolumesOf(keywords, members) ==
    IF keywords = <<>> THEN <<>>
    ELSE LET kw == Head(keywords)
         IN  (IF kw.keyword \in Range(members) /\ kw.search_volume # {}
              THEN <<CHOOSE v \in kw.search_volume : TRUE>> ELSE <<>>)
             \o KnownVolumesOf(Tail(keywords), members)

\* C14: for every cluster produced by cluster_keywords avg_search_volume is
\* the integer-truncated mean of the search volumes of exactly the member
\* keywords whose volume is known (a known volume of 0 included), and is
\* unset, not 0, when no member has a known volume.
C14_AverageOfKnownVolumes ==
    \A c \in DOMAIN pl.clusters :
        LET known == KnownVolumesOf(pl.keyword_metrics,
                                    pl.clusters[c].keywords)
        IN  pl.clusters[c].avg_search_volume =
                IF known = <<>> THEN {}
                ELSE {SumSeq(known) \div Len(known)}

NumericFields == {"search_volume", "competition_score", "cpc"}

\* the volume step of the request ran enrich_keywords
EnrichmentRan == Taken("volume") /\ pl.log["volume"].by # "skipped"

\* C15: volume enrichment only fills numeric fields that were absent: a
\* search_volume, competition_score or cpc that was present and non-zero
\* before enrich_keywords has the same value afterwards, on the Google Ads
\* path and on the estimation path.
C15_EnrichmentOnlyFills ==
    EnrichmentRan =>
        \A i \in DOMAIN pl.raw : \A f \in NumericFields :
            (\E v \in pl.raw[i][f] : v # 0)
                => pl.suggestions[i][f] = pl.raw[i][f]

\* C16: whenever the real metrics API is not configured or its metrics
\* fetch fails the heuristic estimator runs, so after enrich_keywords every
\* keyword that had no volume carries an estimated search_volume and
\* competition level.
C16_EstimatorBacksUpFetch ==
    (Taken("volume")
        /\ pl.log["volume"].by \in {"estimation", "google_ads_failed"})
    => \A i \in DOMAIN pl.raw :
          pl.raw[i].search_volume = {}
            => /\ pl.suggestions[i].search_volume # {}
               /\ pl.suggestions[i].competition \in {"low", "medium", "high"}

(***************************************************************************)
(* VolumeCompetitionService over the life of a deployment: the server      *)
(* process is started (and started again), each start drawing the hash     *)
(* seed of the interpreter and constructing the service, and               *)
(* enrich_keywords is called on the instance of the running process.  ret  *)
(* is the history of the calls.                                            *)
(***************************************************************************)
\* keyword texts of one to five words
EnrichTexts ==
    {<<"seo">>, <<"seo", "tools">>, <<"best", "seo", "tools">>,
     <<"best", "seo", "tools", "guide">>,
     <<"best", "seo", "tools", "guide", "online">>}

\* what a suggestion carries before enrichment: no volume, a volume of 0,
\* a volume
PriorVolumes == {{}, {0}, {300}}

EnrichInputs ==
    {<<[KeywordSuggestion(text, "autocomplete")
            EXCEPT !.search_volume = volume]>> :
        text \in EnrichTexts, volume \in PriorVolumes}

Process(salt, google_ads_client) ==
    [pc |-> "process", salt |-> salt, google_ads_client |-> google_ads_client]

\* VolumeCompetitionService.__init__: a client only with credentials, and
\* none when its initialisation fails
Clients(c) == {FALSE, has_google_ads_credentials(c)}

InitEnrich ==
    /\ cfg \in Configs
    /\ cfg.dataforseo = FALSE /\ cfg.serper = FALSE
    /\ cfg.serpapi_key = FALSE /\ cfg.valueserpapi_key = FALSE
    /\ session = "none"
    /\ cache = <<>>
    /\ ncalls = 0
    /\ ret = <<>>
    /\ \E salt \in HashSalts, client \in Clients(cfg) :
          pl = Process(salt, client)

\* the process is started again: a new hash seed, a new service instance
StartProcess ==
    /\ \E salt \in HashSalts, client \in Clients(cfg) :
          pl' = Process(salt, client)
    /\ UNCHANGED <<cfg, session, cache, ncalls, ret>>

\* one call of enrich_keywords
EnrichKeywords ==
    /\ ncalls < MaxCalls
    /\ \E keywords \in EnrichInputs, resp \in AdsAnswers :
        LET r == enrich_keywords(pl.google_ads_client, keywords, pl.salt,
                                 resp)
        IN  ret' = Append(ret, [google_ads_client |-> pl.google_ads_client,
                                before |-> keywords, after |-> r.value,
                                by |-> r.by,
                                metrics_map |->
                                    DOMAIN _fetch_google_ads_metrics(
                                        pl.google_ads_client,
                                        [i \in DOMAIN keywords |->
                                            keywords[i].keyword], resp)])
    /\ ncalls' = ncalls + 1
    /\ UNCHANGED <<cfg, session, cache, pl>>

NextEnrich == StartProcess \/ EnrichKeywords

SpecEnrich == InitEnrich /\ [][NextEnrich]_vars

\* the enrichments of keywords without volume that ran with no ads
\* credentials
Estimates ==
    UNION {{[text |-> ret[c].before[i].keyword, after |-> ret[c].after[i]] :
                i \in {i \in DOMAIN ret[c].before :
                            ret[c].before[i].search_volume = {}}} :
            c \in {c \in DOMAIN ret : ~has_google_ads_credentials(cfg)}}

InBand(e) ==
    LET word_count == Len(e.text)
        volume == CHOOSE v \in e.after.search_volume : TRUE
    IN  /\ e.after.search_volume # {}
        /\ IF word_count <= 2
           THEN volume \in 5000..49999 /\ e.after.competition = "high"
           ELSE IF word_count = 3
           THEN volume \in 1000..9999 /\ e.after.competition = "medium"
           ELSE volume \in 100..999 /\ e.after.competition = "low"

\* C17: with no ads credentials the estimate of a keyword without volume
\* depends only on its text: 1-2 words give a volume in 5000..49999 with
\* HIGH competition, 3 words 1000..9999 with MEDIUM, 4 or more words
\* 100..999 with LOW, and two enrichments of the same keyword text produce
\* the same volume, level and score.
C17_EstimateDependsOnTextOnly ==
    /\ \A e \in Estimates : InBand(e)
    /\ \A e1, e2 \in Estimates :
          e1.text = e2.text
            => /\ e1.after.search_volume = e2.after.search_volume
               /\ e1.after.competition = e2.after.competition
               /\ e1.after.competition_score = e2.after.competition_score

\* the stages of the full analysis in the order the claim gives them
AnalysisOrder ==
    <<"suggestions", "volume", "intent", "serp", "difficulty", "clustering",
      "recommendations">>

Before(stage) ==
    {AnalysisOrder[j] :
        j \in {j \in DOMAIN AnalysisOrder :
                 \E i \in DOMAIN AnalysisOrder :
                    AnalysisOrder[i] = stage /\ j < i}}

\* the run went through all its stages and returned
Completed == pl.pc \in {"compile", "respond", "done"} /\ pl.failed = "none"

Devices == {"desktop", "mobile"}

\* SERPAnalysisService.__init__, with the process's settings loaded
InitSerp ==
    /\ cfg \in Configs
    /\ cfg.dataforseo = FALSE /\ cfg.serper = FALSE /\ cfg.google_ads = FALSE
    /\ session = "none"
    /\ cache = <<>>
    /\ ncalls = 0
    /\ ret = <<>>
    /\ pl = NoPipeline

\* SERPAnalysisService.__aenter__
SerpEnter ==
    /\ session = "none"
    /\ session' = "open"
    /\ UNCHANGED <<cfg, cache, ncalls, ret, pl>>

\* SERPAnalysisService.__aexit__
SerpExit ==
    /\ session = "open"
    /\ session' = "closed"
    /\ UNCHANGED <<cfg, cache, ncalls, ret, pl>>

\* one call of analyze_serp on the instance
AnalyzeSerp ==
    /\ ncalls < MaxCalls
    /\ \E keyword \in Seeds, device \in Devices, resp \in SerpResponses :
        LET r == analyze_serp(cfg, cache, session, keyword, <<"en">>,
                              <<"us">>, device, resp)
        IN  /\ cache' = r.cache
            /\ ret' = Append(ret, [keyword |-> keyword, device |-> device,
                                   sess |-> session, exc |-> r.exc,
                                   value |-> r.value,
                                   attempts |-> r.attempts])
    /\ ncalls' = ncalls + 1
    /\ UNCHANGED <<cfg, session, pl>>

NextSerp == SerpEnter \/ SerpExit \/ AnalyzeSerp

SpecSerp == InitSerp /\ [][NextSerp]_vars

\* the SERP providers the settings configure
ConfiguredSerpProviders ==
    {t \in {"serpapi", "valueserp"} :
        (t = "serpapi" /\ cfg.serpapi_key)
            \/ (t = "valueserp" /\ cfg.valueserpapi_key)}

FailedTiers(call) ==
    {call.attempts[i].tier :
        i \in {i \in DOMAIN call.attempts : call.attempts[i].exc # "none"}}

EnteredTiers(call) == {call.attempts[i].tier : i \in DOMAIN call.attempts}

\* C19: for the SERP role an adapter failure advances the chain: when both
\* SerpAPI and ValueSERP are configured and the SerpAPI call fails,
\* ValueSERP is attempted, and an error reaches the caller of analyze_serp
\* only after every configured SERP provider has failed.  (Stated of the
\* calls made inside the service's context, where the adapters can reach
\* their providers.)
C19_SerpFailureAdvances ==
    \A j \in {j \in DOMAIN ret : ret[j].sess = "open"} :
        /\ (cfg.serpapi_key /\ cfg.valueserpapi_key
                /\ "serpapi" \in FailedTiers(ret[j]))
            => "valueserp" \in EnteredTiers(ret[j])
        /\ ret[j].exc # "none"
            => ConfiguredSerpProviders \subseteq FailedTiers(ret[j])

\* the earlier calls of the history with the arguments of call j that
\* returned
EarlierFetches(j) ==
    {i \in 1..(j - 1) :
        /\ ret[i].keyword = ret[j].keyword /\ ret[i].device = ret[j].device
        /\ ret[i].exc = "none"}

Results(response) == [response EXCEPT !.cached = FALSE]

\* C20: on one SERPAnalysisService instance a call of analyze_serp that
\* performs the fetch returns a response with cached = false, and a later
\* call with the same (keyword, language, country, device) returns the
\* same results with cached = true without contacting any provider.
C20_CachedOnSecondCall ==
    \A j \in DOMAIN ret :
        IF EarlierFetches(j) = {}
        THEN ret[j].exc = "none" => ret[j].value.cached = FALSE
        ELSE /\ ret[j].exc = "none"
             /\ ret[j].value.cached = TRUE
             /\ ret[j].attempts = <<>>
             /\ \A i \in EarlierFetches(j) :
                   Results(ret[j].value) = Results(ret[i].value)

\* a fetch from a provider and a later call with its arguments
C20_FetchedThenCached ==
    /\ Len(ret) >= 2
    /\ ret[1].exc = "none" /\ ret[1].attempts # <<>>
    /\ ret[1].attempts[1].tier \in {"serpapi", "valueserp"}
    /\ ret[1].value.organic_results # <<>>
    /\ 1 \in EarlierFetches(2)

\* the handler's operation has returned or raised
OperationOver == pl.pc \in {"respond", "done"}

\* C21: every network session opened by an orchestrated operation (the
\* suggestion or the SERP adapter) is closed by the time the operation
\* returns or raises, whatever the outcome of the calls made on it, and no
\* provider call is issued on an adapter whose session has not been opened.
C21_SessionsScoped ==
    pl.pc # "off" =>
        /\ OperationOver
            => \A service \in DOMAIN pl.sessions :
                    pl.sessions[service] # "open"
        /\ \A service \in DOMAIN pl.used :
                pl.used[service] \in {"unused", "open"}

\* the SERP fetch of a full analysis raised on its opened session, after
\* the suggestion service had returned
C21_SerpRaisedAndClosed ==
    /\ FullAnalysis /\ pl.pc = "done" /\ pl.failed = "serp"
    /\ pl.flags.include_suggestions
    /\ pl.used = [suggestion |-> "open", serp |-> "open"]
    /\ pl.sessions = [suggestion |-> "closed", serp |-> "closed"]

(***************************************************************************)
(* SERPAnalysisService._extract_domain.  A URL is what the caller hands    *)
(* over: a str, with or without the "//" that makes urlparse see a network *)
(* location, with or without an unbalanced "[" in it (urlparse raises      *)
(* ValueError), or a value that is no str.  The host is a sequence of      *)
(* characters.                                                             *)
(***************************************************************************)
MaxHost == 6

HostChars == {"w", ".", "e"}

Hosts == UNION {[1..n -> HostChars] : n \in 0..MaxHost}

Urls ==
    [type : {"str"}, slashes : BOOLEAN, bracket : BOOLEAN, host : Hosts]
    \cup [type : {"None", "int"}, slashes : {FALSE}, bracket : {FALSE},
          host : {<<>>}]

\* urlparse(url).netloc, or the exception the expression ends with
urlparse(url) ==
    IF url.type # "str" THEN [exc |-> "TypeError", netloc |-> <<>>]
    ELSE IF url.bracket THEN [exc |-> "ValueError", netloc |-> <<>>]
    ELSE [exc |-> "none",
          netloc |-> IF url.slashes THEN url.host ELSE <<>>]

\* str.replace(old, ""): every occurrence of old, left to right
RECURSIVE Replace(_, _)
Replace(s, old) ==
    IF Len(s) < Len(old) THEN s
    ELSE IF SubSeq(s, 1, Len(old)) = old
    THEN Replace(SubSeq(s, Len(old) + 1, Len(s)), old)
    ELSE <<Head(s)>> \o Replace(Tail(s), old)

_extract_domain(url) ==
    LET parsed == urlparse(url)
    IN  IF parsed.exc # "none"
        THEN [exc |-> "none", value |-> <<>>]    \* except: return ""
        ELSE [exc |-> "none",
              value |-> Replace(parsed.netloc, <<"w", "w", "w", ".">>)]

InitDomain ==
    /\ cfg = [dataforseo |-> FALSE, serper |-> FALSE, google_ads |-> FALSE,
              serpapi_key |-> FALSE, valueserpapi_key |-> FALSE]
    /\ session = "none"
    /\ cache = <<>>
    /\ ncalls = 0
    /\ ret = <<>>
    /\ pl = NoPipeline

\* one call of _extract_domain
ExtractDomain ==
    /\ ncalls = 0
    /\ \E url \in Urls :
        LET r == _extract_domain(url)
        IN  ret' = <<[url |-> url, exc |-> r.exc, value |-> r.value]>>
    /\ ncalls' = 1
    /\ UNCHANGED <<cfg, session, cache, pl>>

NextDomain == ExtractDomain

SpecDomain == InitDomain /\ [][NextDomain]_vars

\* the URL has a host for urlparse to find
WellFormed(url) == url.type = "str" /\ ~url.bracket /\ url.slashes

\* the host without a leading "www."
WithoutLeadingWww(host) ==
    IF Len(host) >= 4 /\ SubSeq(host, 1, 4) = <<"w", "w", "w", ".">>
    THEN SubSeq(host, 5, Len(host)) ELSE host

\* C22: domain extraction removes only a leading "www." from the URL's
\* host and leaves the rest of the host unchanged; for any malformed input
\* it returns the empty string and never raises.
C22_OnlyLeadingWwwRemoved ==
    \A i \in DOMAIN ret :
        /\ ret[i].exc = "none"
        /\ ret[i].value = IF WellFormed(ret[i].url)
                          THEN WithoutLeadingWww(ret[i].url.host)
                          ELSE <<>>

(***************************************************************************)
(* The provider adapters called on their own, on a service instance whose  *)
(* session is in any of its states.  ret holds the call: the adapter, the  *)
(* session, the provider's answer and what the adapter returned or raised. *)
(***************************************************************************)
Adapters == {"dataforseo", "serper", "serpapi", "valueserp"}

AdapterCall(adapter, resp, r) ==
    <<[adapter |-> adapter, sess |-> session, resp |-> resp,
       exc |-> r.exc, value |-> r.value]>>

InitAdapters ==
    /\ cfg = [dataforseo |-> TRUE, serper |-> TRUE, google_ads |-> FALSE,
              serpapi_key |-> TRUE, valueserpapi_key |-> TRUE]
    /\ session \in {"none", "open", "closed"}
    /\ cache = <<>>
    /\ ncalls = 0
    /\ ret = <<>>
    /\ pl = NoPipeline

CallDataforseo ==
    /\ ncalls = 0
    /\ \E resp \in DfsResponses :
        ret' = AdapterCall("dataforseo", resp,
                           _get_dataforseo_suggestions(session, resp))
    /\ ncalls' = 1
    /\ UNCHANGED <<cfg, session, cache, pl>>

CallSerper ==
    /\ ncalls = 0
    /\ \E resp \in SerperResponses, limit \in Limits :
        ret' = AdapterCall("serper", resp,
                           _get_serper_suggestions(session, resp, limit))
    /\ ncalls' = 1
    /\ UNCHANGED <<cfg, session, cache, pl>>

CallSerpapi ==
    /\ ncalls = 0
    /\ \E resp \in SerpResponses, keyword \in Seeds :
        ret' = AdapterCall("serpapi", resp,
                           _analyze_with_serpapi(session, keyword, resp))
    /\ ncalls' = 1
    /\ UNCHANGED <<cfg, session, cache, pl>>

CallValueserp ==
    /\ ncalls = 0
    /\ \E resp \in SerpResponses, keyword \in Seeds :
        ret' = AdapterCall("valueserp", resp,
                           _analyze_with_valueserp(session, keyword, resp))
    /\ ncalls' = 1
    /\ UNCHANGED <<cfg, session, cache, pl>>

NextAdapters == CallDataforseo \/ CallSerper \/ CallSerpapi \/ CallValueserp

SpecAdapters == InitAdapters /\ [][NextAdapters]_vars

\* what the provider's answer amounts to
AuthRejected(resp) == resp.kind = "http" /\ resp.status \in {401, 403}
Throttled(resp) == resp.kind = "http" /\ resp.status = 429
OtherFailure(resp) ==
    \/ resp.kind \in {"network_error", "bad_body"}
    \/ resp.kind = "http" /\ resp.status \notin {401, 403, 429}

\* C23: each provider adapter (DataForSEO, Serper, SerpAPI, ValueSERP)
\* fails only with a typed failure of the taxonomy: an auth rejection
\* raises APIKeyMissingError, an HTTP 429 raises APIRateLimitError, and
\* every other failure (other status, network error, undecodable body)
\* raises APIRequestError; no other exception type escapes an adapter.
\* (Stated of the calls made on an open session.)
C23_AdaptersFailTyped ==
    \A i \in {i \in DOMAIN ret : ret[i].sess = "open"} :
        LET call == ret[i]
        IN  /\ call.exc \in {"none", "APIKeyMissingError",
                             "APIRateLimitError", "APIRequestError"}
            /\ AuthRejected(call.resp) => call.exc = "APIKeyMissingError"
            /\ Throttled(call.resp) => call.exc = "APIRateLimitError"
            /\ OtherFailure(call.resp) => call.exc = "APIRequestError"

(***************************************************************************)
(* The response parsers on payloads that decode but have any shape.  A     *)
(* payload is given by the type of the value found at each place the       *)
(* parser looks at ("absent" for a missing key, "null" for JSON null); its *)
(* lists hold one item.  The parsers above are these on the payloads of    *)
(* the documented shape.                                                   *)
(***************************************************************************)
DfsShapes ==
    [data : {"dict", "list", "null"},
     tasks : {"absent", "list", "empty", "null", "str"},
     task : {"dict", "str", "null"},
     status_code : {20000, 40501},
     result : {"absent", "list", "null"},
     item : {"dict", "str", "null"},
     keyword_data : {"absent", "dict", "null"},
     search_volume : {"int", "null", "str"}]

SerperShapes ==
    [data : {"dict", "list", "null"},
     relatedQueries : {"absent", "list", "null"},
     item : {"dict", "str", "null"},
     query : {"str", "null", "int"}]

SerpapiShapes ==
    [data : {"dict", "list", "null"},
     organic_results : {"absent", "list", "null"},
     result : {"dict", "str"},
     answer_box : {"absent", "dict", "null", "str"},
     search_information : {"absent", "dict", "null"}]

\* the try block of _parse_dataforseo_response: the exception it ends with
\* and the suggestions appended until then
DfsTryBlock(data) ==
    IF data.data = "null" THEN Raised("TypeError", <<>>)   \* "tasks" in None
    ELSE IF data.data = "list" \/ data.tasks = "absent" THEN Returned(<<>>, <<>>)
    ELSE IF data.tasks = "null" THEN Raised("TypeError", <<>>)  \* len(None)
    ELSE IF data.tasks = "empty" THEN Returned(<<>>, <<>>)
    \* task = data["tasks"][0]; task.get("status_code")
    ELSE IF data.tasks = "str" \/ data.task # "dict"
    THEN Raised("AttributeError", <<>>)
    ELSE IF data.status_code # 20000 \/ data.result = "absent"
    THEN Returned(<<>>, <<>>)
    \* for item in task["result"]
    ELSE IF data.result = "null" THEN Raised("TypeError", <<>>)
    \* "keyword_data" in item
    ELSE IF data.item = "null" THEN Raised("TypeError", <<>>)
    ELSE IF data.item = "str" \/ data.keyword_data = "absent"
    THEN Returned(<<>>, <<>>)
    \* kw_data.get("keyword", "")
    ELSE IF data.keyword_data # "dict" THEN Raised("AttributeError", <<>>)
    \* KeywordSuggestion(...): search_volume is Optional[int]
    ELSE IF data.search_volume = "str" THEN Raised("ValidationError", <<>>)
    ELSE Returned(
            <<[KeywordSuggestion(<<"seo", "dfs", "1">>, "dataforseo")
                 EXCEPT !.search_volume =
                    IF data.search_volume = "int" THEN {100} ELSE {}]>>,
            <<>>)

\* except (KeyError, IndexError, TypeError): log; return suggestions
_parse_dataforseo_shape(data) ==
    LET r == DfsTryBlock(data)
    IN  IF r.exc \in {"KeyError", "IndexError", "TypeError"}
        THEN Returned(r.value, <<>>) ELSE r

_parse_serper_shape(data) ==
    \* data.get("relatedQueries", [])
    IF data.data # "dict" THEN Raised("AttributeError", <<>>)
    ELSE IF data.relatedQueries = "absent" THEN Returned(<<>>, <<>>)
    \* for item in related
    ELSE IF data.relatedQueries = "null" THEN Raised("TypeError", <<>>)
    \* item.get("query")
    ELSE IF data.item # "dict" THEN Raised("AttributeError", <<>>)
    ELSE IF data.query = "null" THEN Returned(<<>>, <<>>)
    \* KeywordSuggestion(keyword=query, ...): keyword is a str
    ELSE IF data.query = "int" THEN Raised("ValidationError", <<>>)
    ELSE Returned(<<KeywordSuggestion(<<"seo", "rel", "1">>,
                                      "serper_related")>>, <<>>)

_parse_serpapi_shape(keyword, data) ==
    LET \* an organic result that is no dict fails inside the loop's try
        organic_results ==
            IF data.organic_results = "list" /\ data.result = "dict"
            THEN <<[position |-> 1, title |-> <<"title", "1">>,
                    snippet |-> <<"snippet", "1">>,
                    domain |-> <<"site", "1">>]>>
            ELSE <<>>
    IN  \* "organic_results" in data
        IF data.data = "null" THEN Raised("TypeError", <<>>)
        \* data["organic_results"][:10]
        ELSE IF data.data = "dict" /\ data.organic_results = "null"
        THEN Raised("TypeError", <<>>)
        \* data["answer_box"].get("title")
        ELSE IF data.data = "dict" /\ data.answer_box \in {"null", "str"}
        THEN Raised("AttributeError", <<>>)
        \* data.get("search_information", {}).get("total_results", 0)
        ELSE IF data.data = "list" \/ data.search_information = "null"
        THEN Raised("AttributeError", <<>>)
        ELSE Returned(
                SERPAnalysisResponse(
                    keyword, organic_results,
                    IF data.answer_box = "dict"
                    THEN <<"featured_snippet">> ELSE <<>>,
                    "serpapi", {}),
                <<>>)

ParserCall(parser, data, r) ==
    <<[parser |-> parser, data |-> data, exc |-> r.exc, value |-> r.value]>>

InitParsers ==
    /\ cfg = [dataforseo |-> TRUE, serper |-> TRUE, google_ads |-> FALSE,
              serpapi_key |-> TRUE, valueserpapi_key |-> TRUE]
    /\ session = "open"
    /\ cache = <<>>
    /\ ncalls = 0
    /\ ret = <<>>
    /\ pl = NoPipeline

ParseDataforseo ==
    /\ ncalls = 0
    /\ \E data \in DfsShapes :
        ret' = ParserCall("_parse_dataforseo_response", data,
                          _parse_dataforseo_shape(data))
    /\ ncalls' = 1
    /\ UNCHANGED <<cfg, session, cache, pl>>

ParseSerper ==
    /\ ncalls = 0
    /\ \E data \in SerperShapes :
        ret' = ParserCall("_parse_serper_response", data,
                          _parse_serper_shape(data))
    /\ ncalls' = 1
    /\ UNCHANGED <<cfg, session, cache, pl>>

ParseSerpapi ==
    /\ ncalls = 0
    /\ \E data \in SerpapiShapes :
        ret' = ParserCall("_parse_serpapi_response", data,
                          _parse_serpapi_shape(<<"seo">>, data))
    /\ ncalls' = 1
    /\ UNCHANGED <<cfg, session, cache, pl>>

NextParsers == ParseDataforseo \/ ParseSerper \/ ParseSerpapi

SpecParsers == InitParsers /\ [][NextParsers]_vars

\* C24: a provider payload that decodes but has an unexpected shape
\* (missing keys, a value of the wrong type, a non-dict where a dict is
\* expected) is treated by the adapter's response parser as an empty
\* result: the DataForSEO, Serper and SerpAPI/ValueSERP parsers return an
\* empty or partial record list and never raise.
C24_OddShapesParseEmpty ==
    \A i \in DOMAIN ret : ret[i].exc = "none"

(***************************************************************************)
(* The free tier called on its own, with seeds and autocomplete texts that *)
(* meet the generated variations: a seed that is itself a modifier, and    *)
(* endpoints that suggest a modifier next to the seed.                     *)
(***************************************************************************)
FallbackSeeds == Seeds \cup {<<"best">>}

FallbackTexts ==
    {<<>>, <<<<"best", "seo">>>>, <<<<"seo", "tools">>, <<"seo", "best">>>>,
     AutoWindow(0, 2), AutoWindow(1, 2), AutoWindow(0, MaxAuto)}

FallbackAnswers ==
    [kind : {"http", "network_error"}, texts : {<<>>}]
    \cup [kind : {"ok"}, texts : FallbackTexts]

InitFallback ==
    /\ cfg = [dataforseo |-> FALSE, serper |-> FALSE, google_ads |-> FALSE,
              serpapi_key |-> FALSE, valueserpapi_key |-> FALSE]
    /\ session \in {"none", "open"}
    /\ cache = <<>>
    /\ ncalls = 0
    /\ ret = <<>>
    /\ pl = NoPipeline

GetFallbackSuggestions ==
    /\ ncalls = 0
    /\ \E seed_keyword \in FallbackSeeds, limit \in Limits,
          google \in FallbackAnswers, ddg \in FallbackAnswers :
          ret' = <<[seed_keyword |-> seed_keyword, limit |-> limit,
                    google |-> AutoTexts(session, google),
                    ddg |-> AutoTexts(session, ddg),
                    value |-> _get_fallback_suggestions(
                                 session, seed_keyword, limit,
                                 google, ddg).value]>>
    /\ ncalls' = 1
    /\ UNCHANGED <<cfg, session, cache, pl>>

NextFallback == GetFallbackSuggestions

SpecFallback == InitFallback /\ [][NextFallback]_vars

\* no two records of the list have the same keyword text
DistinctKeywords(suggestions) ==
    \A i, j \in DOMAIN suggestions :
        suggestions[i].keyword = suggestions[j].keyword => i = j

\* a keyword both endpoints returned is tagged google_autocomplete where
\* the list has it as an autocomplete record
FirstSeenWins(call) ==
    \A i \in DOMAIN call.value :
        /\ call.value[i].keyword \in Range(call.google) \cap Range(call.ddg)
        /\ call.value[i].source \in
                {"google_autocomplete", "duckduckgo_autocomplete"}
        => call.value[i].source = "google_autocomplete"

\* C25: the list returned by the free fallback tier (Google and DuckDuckGo
\* autocomplete merged, plus the generated top-up) contains no two records
\* with the same keyword text, and a keyword returned by both endpoints
\* carries the source google_autocomplete.
C25_FallbackHasNoDuplicates ==
    \A c \in DOMAIN ret :
        DistinctKeywords(ret[c].value) /\ FirstSeenWins(ret[c])

\* the records of the calls whose figures the estimator wrote
EstimatedRecords ==
    UNION {{ret[c].after[i] :
                i \in {i \in DOMAIN ret[c].before :
                        ~\E v \in ret[c].before[i].search_volume : v > 0}} :
            c \in {c \in DOMAIN ret : ret[c].by = "estimation"}}

\* the records of the calls whose figures the Keyword Planner gave
ProviderRecords ==
    UNION {{ret[c].after[i] :
                i \in {i \in DOMAIN ret[c].before :
                        ret[c].before[i].keyword \in ret[c].metrics_map}} :
            c \in {c \in DOMAIN ret : ret[c].by = "google_ads"}}

\* C26: in any response, a record whose volume and competition came from
\* the heuristic estimator is distinguishable, by its source tag or by
\* another field, from a record whose metrics came from a real provider.
C26_EstimatesAreMarked ==
    \A e \in EstimatedRecords, r \in ProviderRecords : e # r

\* the SERP fetch of the running analysis returned a provider's answer
SerpFetched ==
    /\ FullAnalysis /\ pl.flags.include_serp
    /\ Taken("serp") /\ pl.log["serp"].exc = "none"
    /\ pl.log["serp"].by \in {"serpapi", "valueserp"}

\* C27: in the full pipeline, whenever include_serp is set and the SERP
\* fetch succeeds, difficulty scoring is run for the seed keyword, also
\* when suggestions are included, and difficulty and difficulty_score are
\* set on no record other than the seed's.
C27_SeedDifficultyScored ==
    /\ SerpFetched /\ Taken("difficulty")
          => pl.log["difficulty"].by = "llm"
    /\ FullAnalysis =>
          \A i \in DOMAIN pl.keyword_metrics :
              \/ pl.keyword_metrics[i].keyword = pl.seed_keyword
              \/ /\ pl.keyword_metrics[i].difficulty = {}
                 /\ pl.keyword_metrics[i].difficulty_score = {}

(***************************************************************************)
(* Concurrent requests.  Each request runs one orchestrated operation and  *)
(* the event loop switches between the requests at every await: on         *)
(* entering the service's block, between the cache lookup and the          *)
(* provider's answer, and on leaving the block.  pl holds the requests and *)
(* the service instances made so far, each with its session and its cache. *)
(***************************************************************************)
NumRequests == 2

Requests == 1..NumRequests

Operations == {"suggest", "serp_analyze"}

\* the answers of the providers the concurrent requests meet
ConcurrentAnswers ==
    {r \in DfsResponses :
        \/ r.kind = "http" /\ r.status = 500
        \/ r.kind = "ok" /\ r.task_status = 20000 /\ r.n = 1}
    \cup {r \in SerpResponses :
        \/ r.kind = "http" /\ r.status = 429
        \/ r.kind = "ok" /\ r.organic = 2 /\ r.features = <<>>}

AnswersFor(operation) ==
    IF operation = "suggest" THEN ConcurrentAnswers \cap DfsResponses
    ELSE ConcurrentAnswers \cap SerpResponses

NoRequest ==
    [pc |-> "idle", operation |-> "none", seed_keyword |-> <<>>,
     instance |-> 0, hit |-> FALSE, exc |-> "none", cached |-> {}]

\* a slip: the services are made once and every request uses them
SharedService(instances, operation) ==
    IF \E i \in DOMAIN instances : instances[i].operation = operation
    THEN CHOOSE i \in DOMAIN instances : instances[i].operation = operation
    ELSE Len(instances) + 1

\* KeywordSuggestionService(), SERPAnalysisService(): the object the
\* async with statement of the call makes
NewService(instances, operation) == Len(instances) + 1

\* the key the operation's service keeps the result under
KeyOf(request) ==
    IF request.operation = "suggest"
    THEN CacheKey(request.seed_keyword, <<"en">>, <<"us">>, MaxLimit)
    ELSE SerpCacheKey(request.seed_keyword, <<"en">>, <<"us">>, "desktop")

\* the service call of the request on the cache and the session given
ServiceCall(c, request, theCache, sess, answer) ==
    IF request.operation = "suggest"
    THEN LET r == get_suggestions(
                    c, theCache, sess, request.seed_keyword, MaxLimit,
                    <<"en">>, <<"us">>,
                    [dfs |-> answer,
                     serper |-> [kind |-> "network_error", status |-> 200,
                                 related |-> 0, paa |-> 0],
                     google |-> [kind |-> "network_error", texts |-> <<>>],
                     ddg |-> [kind |-> "network_error", texts |-> <<>>]])
         \* get_keyword_suggestions_only: "cached": False
         IN  [exc |-> r.exc, cache |-> r.cache, hit |-> r.cached,
              cached |-> FALSE]
    ELSE LET r == analyze_serp(c, theCache, sess, request.seed_keyword,
                               <<"en">>, <<"us">>, "desktop", answer)
         \* analyze_serp_with_insights: "cached": serp_data.cached
         IN  [exc |-> r.exc, cache |-> r.cache,
              hit |-> r.exc = "none" /\ r.attempts = <<>>,
              cached |-> r.exc = "none" /\ r.value.cached]

Without(theCache, key) ==
    [k \in DOMAIN theCache \ {key} |-> theCache[k]]

InitConcurrent ==
    /\ cfg = [dataforseo |-> TRUE, serper |-> FALSE, google_ads |-> FALSE,
              serpapi_key |-> TRUE, valueserpapi_key |-> FALSE]
    /\ session = "none"
    /\ cache = <<>>
    /\ ncalls = 0
    /\ ret = <<>>
    /\ pl = [pc |-> "serving", requests |-> [r \in Requests |-> NoRequest],
             instances |-> <<>>]

\* the router calls the orchestrator's operation, which enters the block
EnterService ==
    \E r \in Requests, operation \in Operations, seed_keyword \in Seeds :
        LET id == NewService(pl.instances, operation)
            made == [operation |-> operation, owner |-> r,
                     session |-> __aenter__("none"), cache |-> <<>>]
        IN  /\ pl.requests[r].pc = "idle"
            /\ pl' = [pl EXCEPT
                        !.requests[r] =
                            [@ EXCEPT !.pc = "entered",
                                      !.operation = operation,
                                      !.seed_keyword = seed_keyword,
                                      !.instance = id],
                        !.instances =
                            IF id \in DOMAIN pl.instances
                            THEN [@ EXCEPT ![id].session =
                                                __aenter__(@)]
                            ELSE Append(@, made)]
            /\ UNCHANGED <<cfg, session, cache, ncalls, ret>>

\* the service looks its key up: a hit returns, a miss awaits the provider
LookUp ==
    \E r \in Requests :
        LET request == pl.requests[r]
            inst == pl.instances[request.instance]
            res == ServiceCall(cfg, request, inst.cache, inst.session,
                               CHOOSE a \in AnswersFor(request.operation) :
                                    TRUE)
        IN  /\ request.pc = "entered"
            /\ pl' = IF KeyOf(request) \in DOMAIN inst.cache
                     THEN [pl EXCEPT
                            !.requests[r] =
                                [@ EXCEPT !.pc = "called", !.hit = res.hit,
                                          !.exc = res.exc,
                                          !.cached = {res.cached}],
                            !.instances[request.instance].cache = res.cache]
                     ELSE [pl EXCEPT !.requests[r].pc = "fetching"]
            /\ UNCHANGED <<cfg, session, cache, ncalls, ret>>

\* the provider answers: the result is stored under the key and returned
Fetched ==
    \E r \in Requests :
        \E answer \in AnswersFor(pl.requests[r].operation) :
            LET request == pl.requests[r]
                inst == pl.instances[request.instance]
                res == ServiceCall(cfg, request,
                                   Without(inst.cache, KeyOf(request)),
                                   inst.session, answer)
            IN  /\ request.pc = "fetching"
                /\ pl' = [pl EXCEPT
                            !.requests[r] =
                                [@ EXCEPT !.pc = "called", !.hit = res.hit,
                                          !.exc = res.exc,
                                          !.cached =
                                              IF res.exc = "none"
                                              THEN {res.cached} ELSE {}],
                            !.instances[request.instance].cache =
                                IF res.exc = "none" THEN res.cache
                                ELSE inst.cache]
                /\ UNCHANGED <<cfg, session, cache, ncalls, ret>>

\* the block is left and the operation returns or raises
LeaveService ==
    \E r \in Requests :
        /\ pl.requests[r].pc = "called"
        /\ pl' = [pl EXCEPT
                    !.requests[r].pc = "done",
                    !.instances[pl.requests[r].instance].session =
                        __aexit__(@)]
        /\ UNCHANGED <<cfg, session, cache, ncalls, ret>>

NextConcurrent == EnterService \/ LookUp \/ Fetched \/ LeaveService

SpecConcurrent == InitConcurrent /\ [][NextConcurrent]_vars

\* C28: for any interleaving of concurrent requests, each orchestrated call
\* uses adapter instances created for that call, no request reads or
\* writes a cache entry of another request, the cache-hit branch is never
\* taken inside an orchestrated operation, and every orchestrated response
\* reports cached = false.
C28_RequestsShareNothing ==
    \A r \in Requests :
        LET request == pl.requests[r]
        IN  request.instance # 0 =>
                /\ pl.instances[request.instance].owner = r
                /\ \A q \in Requests \ {r} :
                        pl.requests[q].instance # request.instance
                /\ DOMAIN pl.instances[request.instance].cache
                        \subseteq {KeyOf(request)}
                /\ ~request.hit
                /\ request.cached \subseteq {FALSE}

\* two requests for the same key have both been answered
C28_SameKeyServedTwice ==
    \A r \in Requests :
        /\ pl.requests[r].pc = "done"
        /\ pl.requests[r].exc = "none"
        /\ pl.requests[r].cached = {FALSE}
        /\ KeyOf(pl.requests[r]) = KeyOf(pl.requests[1])

(***************************************************************************)
(* One KeywordSuggestionService, entered, called with arguments that hold  *)
(* underscores: the token "_" inside a text is an underscore written in it *)
(* (<<"seo", "_", "en">> is the text seo_en, <<"en", "_", "us">> the       *)
(* language en_us).  ret is the history of the calls.                      *)
(***************************************************************************)
KeySeeds == {<<"seo">>, <<"seo", "_", "en">>}

KeyLanguages == {<<"en">>, <<"us">>, <<"en", "_", "us">>}

KeyCountries == {<<"us">>, <<"ca">>}

KeyAnswers ==
    {r \in DfsResponses :
        r.kind = "ok" /\ r.task_status = 20000 /\ r.n \in {1, MaxProv}}

InitKeys ==
    /\ cfg = [dataforseo |-> TRUE, serper |-> FALSE, google_ads |-> FALSE,
              serpapi_key |-> FALSE, valueserpapi_key |-> FALSE]
    /\ session = "open"
    /\ cache = <<>>
    /\ ncalls = 0
    /\ ret = <<>>
    /\ pl = NoPipeline

\* one call of get_suggestions on the instance
GetSuggestionsKeyed ==
    /\ ncalls < MaxCalls
    /\ \E seed_keyword \in KeySeeds, language \in KeyLanguages,
          country \in KeyCountries, answer \in KeyAnswers :
        LET r == get_suggestions(
                    cfg, cache, session, seed_keyword, MaxLimit, language,
                    country,
                    [dfs |-> answer,
                     serper |-> [kind |-> "network_error", status |-> 200,
                                 related |-> 0, paa |-> 0],
                     google |-> [kind |-> "network_error", texts |-> <<>>],
                     ddg |-> [kind |-> "network_error", texts |-> <<>>]])
        IN  /\ cache' = r.cache
            /\ ret' = Append(ret, [seed_keyword |-> seed_keyword,
                                   language |-> language,
                                   country |-> country, limit |-> MaxLimit,
                                   exc |-> r.exc, value |-> r.value,
                                   cached |-> r.cached])
    /\ ncalls' = ncalls + 1
    /\ UNCHANGED <<cfg, session, pl>>

NextKeys == GetSuggestionsKeyed

SpecKeys == InitKeys /\ [][NextKeys]_vars

\* the arguments the cache key is made of
KeyTuple(call) ==
    <<call.seed_keyword, call.language, call.country, call.limit>>

\* C29: on one KeywordSuggestionService instance the cache key is
\* injective on (seed, language, country, limit): a call whose tuple
\* differs in any component from the tuple of every earlier call is never
\* answered from an earlier call's cache entry.
C29_CacheKeyInjective ==
    \A j \in DOMAIN ret :
        (\A i \in 1..(j - 1) : KeyTuple(ret[i]) # KeyTuple(ret[j]))
            => ~ret[j].cached

\* the response object a fetching call returned, as it reads now: the call
\* stored the object it returned (self.cache[cache_key] = result; return
\* result), so it is the entry of the instance's cache
ResponseHeld(theCache, call) ==
    theCache[SerpCacheKey(call.keyword, <<"en">>, <<"us">>, call.device)]

\* the calls that returned a response freshly fetched from a provider
FreshFetches ==
    {i \in DOMAIN ret :
        /\ ret[i].exc = "none" /\ ret[i].attempts # <<>>
        /\ ret[i].value.serp_api_used # "none"}

\* C30: a response object analyze_serp returned from a fresh fetch
\* (cached = false) is left unchanged by later calls on the same instance:
\* after a later cache hit for the same key, the first caller's response
\* still reads cached = false.
C30_FetchedResponseUnchanged ==
    \A i \in FreshFetches :
        /\ ~ret[i].value.cached
        /\ ResponseHeld(cache, ret[i]) = ret[i].value

====
